---- MODULE Spec2Model ----
(***************************************************************************)
(* solr-client: the Lucene escaper and the date normalizer of utils.ts,    *)
(* the structured (JSON Request API) Query builder, the flat (query        *)
(* string) Query builder, the Collection admin builder and the request     *)
(* transport (executeRequest).                                             *)
(*                                                                         *)
(* A JavaScript string is a sequence of one-character strings.  A          *)
(* JavaScript value is a tagged record:                                    *)
(*   [t |-> "str",  s |-> <<chars>>]     [t |-> "num", n |-> Int]          *)
(*   [t |-> "null"]   [t |-> "undef"]    [t |-> "bool", b |-> BOOLEAN]     *)
(*   [t |-> "date", valid |-> BOOLEAN, ms |-> Nat]                         *)
(*   [t |-> "ref",  id |-> heap index]   (an array or a plain object)      *)
(* and, once read out of the heap as a tree,                               *)
(*   [t |-> "list", items |-> <<values>>]                                  *)
(*   [t |-> "obj",  e |-> << [k |-> key, v |-> value] >>]  (insertion      *)
(*   order, as Object.entries and JSON.stringify see it).                  *)
(***************************************************************************)
EXTENDS Integers, Sequences, FiniteSets, TLC

VARIABLES
  text,         \* escapeLuceneChars: the argument
  escaped,      \* escapeLuceneChars: the returned value, NotCalled before
  heap,         \* the arrays and plain objects allocated so far, by index
  heapBefore,   \* the heap as it was when the normalizer was entered
  doc,          \* the caller's value handed to the normalizer
  normalized,   \* convertDatesToISO(doc), Thrown if it threw
  renormalized, \* convertDatesToISO(normalized)
  updateData,   \* addDocuments: the data handed on to updateDocuments
  builder,      \* the builder constructed: "json" (structured Query),
                \* "flat" (query-string Query), "admin" (Collection),
                \* "inline" (Collection of src/collection.ts)
  body,         \* structured Query: this.body
  parameters,   \* flat Query, Collection: this.parameters
  finalized,    \* the finalizer calls since the last setter call: what
                \* each one read and what it returned
  calls,        \* the number of setter calls made on the builder
  placed,       \* the keys handed to setParam so far
  added,        \* the filters handed to the filter setters so far
  raised,       \* TRUE iff the last setter call threw
  call,         \* the last setter call that was recorded: its name and
                \* its argument, NotCalled before
  returned,     \* structured Query: the object the last toObject call
                \* returned, as it is now in the caller's hands
  earlier,      \* what the last finalizer call returned, when one was
                \* made between the last two setter calls
  dispatch,     \* executeRequest: where the call stands
  response,     \* the HTTP response: statusCode and the text of its body
  outcome,      \* how the promise of executeRequest settled
  client,       \* the Client constructed: "post" (part_005, every query
                \* by POST), "sized" (part_006, GET or POST by size)
  clientOptions, \* the configuration handed to createClient
  clientConfig, \* Client: this.config
  inflight,     \* the requests handed to the HTTP client and not yet
                \* answered, in the order they were issued
  authCall,     \* the last call of setBasicAuth or clearAuth, NotCalled
                \* before
  handed        \* the object the caller handed to the last operation
                \* that takes one: as it was, and as it is after the call

escVars == <<text, escaped>>
normVars == <<heap, heapBefore, doc, normalized, renormalized, updateData>>
bldVars == <<builder, body, parameters, finalized, calls, placed, added, raised, call,
             earlier, returned>>
reqVars == <<dispatch, response, outcome>>
cliVars == <<client, clientOptions, clientConfig, inflight, authCall, handed>>
vars == <<escVars, normVars, bldVars, reqVars, cliVars>>

----------------------------------------------------------------------------
(* JavaScript values *)

NotCalled == [t |-> "none"]
\* an exception left the call
Thrown == [t |-> "throw"]
Null == [t |-> "null"]
Undefined == [t |-> "undef"]
Str(s) == [t |-> "str", s |-> s]
Num(n) == [t |-> "num", n |-> n]

Ref(i) == [t |-> "ref", id |-> i]
DateOf(ms) == [t |-> "date", valid |-> TRUE, ms |-> ms]
\* new Date(NaN): getTime() is NaN
InvalidDate == [t |-> "date", valid |-> FALSE, ms |-> 0]

\* the characters of code 32 to 126, the grave accent left out
Ascii ==
  <<" ", "!", "\"", "#", "$", "%", "&", "'", "(", ")", "*", "+", ",", "-", ".", "/", "0", "1", "2", "3", "4", "5", "6", "7", "8", "9", ":", ";", "<", "=", ">", "?", "@", "A", "B", "C", "D", "E", "F", "G", "H", "I", "J", "K", "L", "M", "N", "O", "P", "Q", "R", "S", "T", "U", "V", "W", "X", "Y", "Z", "[", "\\", "]", "^", "_", "", "a", "b", "c", "d", "e", "f", "g", "h", "i", "j", "k", "l", "m", "n", "o", "p", "q", "r", "s", "t", "u", "v", "w", "x", "y", "z", "{", "|", "}", "~">>

IsString(v) == v.t = "str"
IsRef(v) == v.t = "ref"
IsDate(v) == v.t = "date"

EscIdle == text = NotCalled /\ escaped = NotCalled
EmptyObject == [k \in {} |-> Null]
ReqIdle ==
  /\ dispatch = "none"
  /\ response = NotCalled
  /\ outcome = NotCalled
CliIdle ==
  /\ client = "none"
  /\ clientOptions = NotCalled
  /\ clientConfig = NotCalled
  /\ inflight = <<>>
  /\ authCall = NotCalled
  /\ handed = NotCalled
BldIdle ==
  /\ builder = "none"
  /\ body = EmptyObject
  /\ parameters = <<>>
  /\ finalized = <<>>
  /\ calls = 0
  /\ placed = {}
  /\ added = <<>>
  /\ raised = FALSE
  /\ call = NotCalled
  /\ earlier = NotCalled
  /\ returned = NotCalled
NormIdle ==
  /\ heap = <<>>
  /\ heapBefore = <<>>
  /\ doc = NotCalled
  /\ normalized = NotCalled
  /\ renormalized = NotCalled
  /\ updateData = NotCalled

----------------------------------------------------------------------------
(* utils.ts: escapeLuceneChars *)

\* longest text handed to escapeLuceneChars
MaxTextLen == 3

\* the character class of the first replace, less the slash
SpecialChars_NoSlash ==
  {"+", "-", "!", "(", ")", "{", "}", "[", "]", "^", "\"", "~", "*", "?", ":", "\\"}

\* the character class  [+\-!(){}[\]^"~*?:\\/]  of the first replace
SpecialChars ==
  {"+", "-", "!", "(", ")", "{", "}", "[", "]", "^", "\"", "~", "*", "?", ":", "\\", "/"}

\* characters of the texts tried: the class, the two operator characters, a letter
TextChars ==
  {"+", "-", "!", "(", ")", "{", "}", "[", "]", "^", "\"", "~", "*", "?", ":", "\\", "/",
   "&", "|", "a"}

RECURSIVE EscapeSingleChars(_)
\* .replace(/([+\-!(){}[\]^"~*?:\\/])/g, '\\$1')
EscapeSingleChars(s) ==
  IF s = <<>> THEN <<>>
  ELSE IF Head(s) \in SpecialChars
       THEN <<"\\", Head(s)>> \o EscapeSingleChars(Tail(s))
       ELSE <<Head(s)>> \o EscapeSingleChars(Tail(s))

RECURSIVE ReplacePairs(_, _, _)
\* .replace(/cc/g, rep): leftmost matches, not overlapping
ReplacePairs(s, c, rep) ==
  IF Len(s) < 2 THEN s
  ELSE IF s[1] = c /\ s[2] = c
       THEN rep \o ReplacePairs(SubSeq(s, 3, Len(s)), c, rep)
       ELSE <<s[1]>> \o ReplacePairs(Tail(s), c, rep)

EscapedAnd == <<"\\", "&", "\\", "&">>
EscapedOr == <<"\\", "|", "\\", "|">>

\* the operator pairs replaced before the single characters
escapeLuceneChars_PairsFirst(v) ==
  IF ~IsString(v) THEN v
  ELSE Str(EscapeSingleChars(
             ReplacePairs(ReplacePairs(v.s, "&", EscapedAnd), "|", EscapedOr)))

escapeLuceneChars(v) ==
  IF ~IsString(v) THEN v
  ELSE Str(ReplacePairs(ReplacePairs(EscapeSingleChars(v.s), "&", EscapedAnd),
                        "|", EscapedOr))

\* arguments that are not strings
NonStrings == {Num(0), Num(7), Null, Undefined}

InitEscape ==
  /\ BldIdle
  /\ ReqIdle
  /\ CliIdle
  /\ text \in {Str(<<>>)} \cup NonStrings
  /\ escaped = NotCalled
  /\ NormIdle

\* the caller's text grows by one character
TypeChar ==
  /\ escaped = NotCalled
  /\ IsString(text)
  /\ Len(text.s) < MaxTextLen
  /\ \E c \in TextChars : text' = Str(Append(text.s, c))
  /\ UNCHANGED <<escaped, normVars, bldVars, reqVars, cliVars>>

\* escapeLuceneChars(text)
EscapeCall ==
  /\ text # NotCalled
  /\ escaped = NotCalled
  /\ escaped' = escapeLuceneChars(text)
  /\ UNCHANGED <<text, normVars, bldVars, reqVars, cliVars>>

NextEscape == TypeChar \/ EscapeCall

SpecEscape == InitEscape /\ [][NextEscape]_vars

----------------------------------------------------------------------------
(* C1, C2: the escaper *)

RECURSIVE ExpectedEscape(_)
\* one pass from the left: a reserved character gets a backslash, a pair of
\* & or | becomes the escaped pair, anything else is copied
ExpectedEscape(s) ==
  IF s = <<>> THEN <<>>
  ELSE IF Head(s) \in {"+", "-", "!", "(", ")", "{", "}", "[", "]", "^", "\"",
                       "~", "*", "?", ":", "\\", "/"}
       THEN <<"\\", Head(s)>> \o ExpectedEscape(Tail(s))
  ELSE IF Len(s) >= 2 /\ s[1] = "&" /\ s[2] = "&"
       THEN <<"\\", "&", "\\", "&">> \o ExpectedEscape(SubSeq(s, 3, Len(s)))
  ELSE IF Len(s) >= 2 /\ s[1] = "|" /\ s[2] = "|"
       THEN <<"\\", "|", "\\", "|">> \o ExpectedEscape(SubSeq(s, 3, Len(s)))
  ELSE <<Head(s)>> \o ExpectedEscape(Tail(s))

\* C1: a non-string argument is returned unchanged; a string is returned with
\* every reserved character preceded by one backslash, every && and || pair
\* escaped, and every other character kept in place and order.
C1_EscapeContract ==
  escaped # NotCalled =>
    IF IsString(text)
    THEN IsString(escaped) /\ escaped.s = ExpectedEscape(text.s)
    ELSE escaped = text

C1_Witness ==
  /\ escaped # NotCalled
  /\ IsString(text)
  /\ text.s = <<"/", "&", "&">>

RECURSIVE Unescape(_)
\* drop each escaping backslash and keep the character it protects
Unescape(s) ==
  IF s = <<>> THEN <<>>
  ELSE IF Head(s) = "\\" /\ Len(s) >= 2
       THEN <<s[2]>> \o Unescape(SubSeq(s, 3, Len(s)))
       ELSE <<Head(s)>> \o Unescape(Tail(s))

\* C2: removing the backslashes escaping introduced gives back the text, also
\* when the text has backslashes, reserved characters, & and | of its own.
C2_EscapeRoundTrip ==
  (escaped # NotCalled /\ IsString(text)) =>
    (IsString(escaped) /\ Unescape(escaped.s) = text.s)

C2_Witness ==
  /\ escaped # NotCalled
  /\ IsString(text)
  /\ text.s = <<"\\", "|", "|">>
  /\ escaped.s = <<"\\", "\\", "\\", "|", "\\", "|">>

----------------------------------------------------------------------------
(* utils.ts: convertDatesToISO, formatDateToISO *)

\* deepest nesting of containers in the caller's value
MaxDepth == 2
\* most elements of a list, most keys of an object, in the caller's value
MaxWidth == 2

isArray(h, v) == IsRef(v) /\ h[v.id].t = "list"
isPlainObject(h, v) == IsRef(v) /\ h[v.id].t = "obj"

Digit(d) == <<"0", "1", "2", "3", "4", "5", "6", "7", "8", "9">>[d + 1]

RECURSIVE Pad(_, _)
\* the decimal digits of n, zero-padded to w places
Pad(n, w) == IF w = 0 THEN <<>> ELSE Pad(n \div 10, w - 1) \o <<Digit(n % 10)>>

\* Date.prototype.toISOString, for the instants of January 1970 (the
\* milliseconds that fit 32 bits): RangeError on an invalid date
toISOString(d) ==
  IF ~d.valid THEN Thrown
  ELSE Str(<<"1", "9", "7", "0", "-", "0", "1", "-">>
           \o Pad(1 + d.ms \div 86400000, 2) \o <<"T">>
           \o Pad((d.ms \div 3600000) % 24, 2) \o <<":">>
           \o Pad((d.ms \div 60000) % 60, 2) \o <<":">>
           \o Pad((d.ms \div 1000) % 60, 2) \o <<".">>
           \o Pad(d.ms % 1000, 3) \o <<"Z">>)

\* the isNaN(date.getTime()) test left out
formatDateToISO_NoNaNCheck(d) == toISOString(d)

\* date && !isNaN(date.getTime()) ? date.toISOString() : null
formatDateToISO(d) == IF d.valid THEN toISOString(d) ELSE Null

RECURSIVE convertDatesToISO(_, _)
RECURSIVE MapElements(_, _, _, _)
RECURSIVE CopyEntries(_, _, _, _)
RECURSIVE CopyEntriesShallow(_, _, _, _)
RECURSIVE AssignEntries(_, _, _)

\* input.map(convertDatesToISO): the new array dst gets the converted
\* elements of src, from element i on
MapElements(h, dst, src, i) ==
  IF i > Len(h[src].items) THEN [h |-> h, v |-> Ref(dst)]
  ELSE LET r == convertDatesToISO(h, h[src].items[i])
       IN IF r.v = Thrown THEN r
          ELSE MapElements([r.h EXCEPT ![dst].items = Append(@, r.v)], dst, src, i + 1)

\* for (const [key, value] of Object.entries(input)) result[key] = convertDatesToISO(value)
CopyEntries(h, dst, src, i) ==
  IF i > Len(h[src].e) THEN [h |-> h, v |-> Ref(dst)]
  ELSE LET r == convertDatesToISO(h, h[src].e[i].v)
       IN IF r.v = Thrown THEN r
          ELSE CopyEntries([r.h EXCEPT ![dst].e = Append(@, [k |-> h[src].e[i].k, v |-> r.v])],
                           dst, src, i + 1)

\* result[key] = value instanceof Date ? formatDateToISO(value) : value
CopyEntriesShallow(h, dst, src, i) ==
  IF i > Len(h[src].e) THEN [h |-> h, v |-> Ref(dst)]
  ELSE LET val == h[src].e[i].v
           out == IF IsDate(val) THEN formatDateToISO(val) ELSE val
       IN IF out = Thrown THEN [h |-> h, v |-> Thrown]
          ELSE CopyEntriesShallow([h EXCEPT ![dst].e = Append(@, [k |-> h[src].e[i].k, v |-> out])],
                                  dst, src, i + 1)

\* input[key] = convertDatesToISO(value), written into the caller's object
AssignEntries(h, src, i) ==
  IF i > Len(h[src].e) THEN [h |-> h, v |-> Ref(src)]
  ELSE LET r == convertDatesToISO(h, h[src].e[i].v)
       IN IF r.v = Thrown THEN r
          ELSE AssignEntries([r.h EXCEPT ![src].e[i].v = r.v], src, i + 1)

\* the values of an object copied without recursion
convertDatesToISO_Shallow(h, input) ==
  IF isArray(h, input)
  THEN MapElements(Append(h, [t |-> "list", items |-> <<>>]), Len(h) + 1, input.id, 1)
  ELSE IF isPlainObject(h, input)
  THEN CopyEntriesShallow(Append(h, [t |-> "obj", e |-> <<>>]), Len(h) + 1, input.id, 1)
  ELSE IF IsDate(input) THEN [h |-> h, v |-> formatDateToISO(input)]
  ELSE [h |-> h, v |-> input]

\* typeof input === 'object' without the test that input is not null:
\* Object.entries(null) is a TypeError
convertDatesToISO_NoNullGuard(h, input) ==
  IF isArray(h, input)
  THEN MapElements(Append(h, [t |-> "list", items |-> <<>>]), Len(h) + 1, input.id, 1)
  ELSE IF input = Null THEN [h |-> h, v |-> Thrown]
  ELSE IF isPlainObject(h, input)
  THEN CopyEntries(Append(h, [t |-> "obj", e |-> <<>>]), Len(h) + 1, input.id, 1)
  ELSE IF IsDate(input) THEN [h |-> h, v |-> formatDateToISO(input)]
  ELSE [h |-> h, v |-> input]

\* the converted values written back into the caller's object
convertDatesToISO_InPlace(h, input) ==
  IF isArray(h, input)
  THEN MapElements(Append(h, [t |-> "list", items |-> <<>>]), Len(h) + 1, input.id, 1)
  ELSE IF isPlainObject(h, input) THEN AssignEntries(h, input.id, 1)
  ELSE IF IsDate(input) THEN [h |-> h, v |-> formatDateToISO(input)]
  ELSE [h |-> h, v |-> input]

\* the heap after the call and the value returned (Thrown for an exception)
convertDatesToISO(h, input) ==
  IF isArray(h, input)
  THEN MapElements(Append(h, [t |-> "list", items |-> <<>>]), Len(h) + 1, input.id, 1)
  ELSE IF isPlainObject(h, input)
  THEN CopyEntries(Append(h, [t |-> "obj", e |-> <<>>]), Len(h) + 1, input.id, 1)
  ELSE IF IsDate(input) THEN [h |-> h, v |-> formatDateToISO(input)]
  ELSE [h |-> h, v |-> input]

RECURSIVE Tree(_, _)
\* the value v of heap h read out as a tree
Tree(h, v) ==
  IF ~IsRef(v) THEN v
  ELSE IF h[v.id].t = "list"
  THEN [t |-> "list", items |-> [i \in 1..Len(h[v.id].items) |-> Tree(h, h[v.id].items[i])]]
  ELSE [t |-> "obj",
        e |-> [i \in 1..Len(h[v.id].e) |->
                 [k |-> h[v.id].e[i].k, v |-> Tree(h, h[v.id].e[i].v)]]]

RECURSIVE Containers(_, _)
\* the heap indexes of the arrays and objects reachable from v
Containers(h, v) ==
  IF ~IsRef(v) THEN {}
  ELSE {v.id} \cup
       (IF h[v.id].t = "list"
        THEN UNION {Containers(h, h[v.id].items[i]) : i \in 1..Len(h[v.id].items)}
        ELSE UNION {Containers(h, h[v.id].e[i].v) : i \in 1..Len(h[v.id].e)})

RECURSIVE Depth(_, _)
Depth(h, v) ==
  IF ~IsRef(v) THEN 0
  ELSE IF h[v.id].t = "list"
  THEN IF h[v.id].items = <<>> THEN 1 ELSE 1 + Depth(h, h[v.id].items[1])
  ELSE IF h[v.id].e = <<>> THEN 1 ELSE 1 + Depth(h, h[v.id].e[1].v)

\* the scalars a caller puts in a document
Scalars == {DateOf(0), InvalidDate, Null}
\* the values a caller starts from
Seeds == Scalars \cup {DateOf(90061001), Num(0), Str(<<"x">>)}
Keys == {<<"a">>, <<"b">>}

InitDates ==
  /\ EscIdle
  /\ ReqIdle
  /\ CliIdle
  /\ BldIdle
  /\ heap = <<>>
  /\ heapBefore = <<>>
  /\ doc \in Seeds
  /\ normalized = NotCalled
  /\ renormalized = NotCalled
  /\ updateData = NotCalled

Building == normalized = NotCalled /\ updateData = NotCalled

\* the caller wraps the value in a new array: [doc]
WrapInList ==
  /\ Building
  /\ Depth(heap, doc) < MaxDepth
  /\ heap' = Append(heap, [t |-> "list", items |-> <<doc>>])
  /\ doc' = Ref(Len(heap) + 1)
  /\ UNCHANGED <<bldVars, escVars, reqVars, cliVars, heapBefore, normalized, renormalized, updateData>>

\* the caller wraps the value in a new object: {k: doc}
WrapInObject ==
  /\ Building
  /\ Depth(heap, doc) < MaxDepth
  /\ \E k \in Keys :
       heap' = Append(heap, [t |-> "obj", e |-> <<[k |-> k, v |-> doc]>>])
  /\ doc' = Ref(Len(heap) + 1)
  /\ UNCHANGED <<bldVars, escVars, reqVars, cliVars, heapBefore, normalized, renormalized, updateData>>

\* the caller starts from an empty array or an empty object instead
NewContainer ==
  /\ Building
  /\ heap = <<>>
  /\ \E c \in {[t |-> "list", items |-> <<>>], [t |-> "obj", e |-> <<>>]} :
       heap' = <<c>>
  /\ doc' = Ref(1)
  /\ UNCHANGED <<bldVars, escVars, reqVars, cliVars, heapBefore, normalized, renormalized, updateData>>

\* doc.push(s)
PushScalar ==
  /\ Building
  /\ isArray(heap, doc)
  /\ Len(heap[doc.id].items) < MaxWidth
  /\ \E s \in Scalars : heap' = [heap EXCEPT ![doc.id].items = Append(@, s)]
  /\ UNCHANGED <<bldVars, escVars, reqVars, cliVars, heapBefore, doc, normalized, renormalized, updateData>>

\* doc[k] = s, for a key doc does not have
SetKey ==
  /\ Building
  /\ isPlainObject(heap, doc)
  /\ Len(heap[doc.id].e) < MaxWidth
  /\ \E k \in Keys, s \in Scalars :
       /\ \A i \in 1..Len(heap[doc.id].e) : heap[doc.id].e[i].k # k
       /\ heap' = [heap EXCEPT ![doc.id].e = Append(@, [k |-> k, v |-> s])]
  /\ UNCHANGED <<bldVars, escVars, reqVars, cliVars, heapBefore, doc, normalized, renormalized, updateData>>

\* convertDatesToISO(doc)
ConvertCall ==
  /\ Building
  /\ LET r == convertDatesToISO(heap, doc)
     IN /\ heap' = r.h
        /\ normalized' = r.v
  /\ heapBefore' = heap
  /\ UNCHANGED <<bldVars, escVars, reqVars, cliVars, doc, renormalized, updateData>>

\* convertDatesToISO(convertDatesToISO(doc))
ConvertAgain ==
  /\ normalized \notin {NotCalled, Thrown}
  /\ renormalized = NotCalled
  /\ LET r == convertDatesToISO(heap, normalized)
     IN /\ heap' = r.h
        /\ renormalized' = r.v
  /\ UNCHANGED <<bldVars, escVars, reqVars, cliVars, heapBefore, doc, normalized, updateData>>

\* Client.addDocuments(doc): the documents are normalized, a single document
\* is put in a new array, and the array goes to updateDocuments
AddDocuments ==
  /\ Building
  /\ IsRef(doc)
  /\ LET r == convertDatesToISO(heap, doc)
     IN IF r.v = Thrown
        THEN heap' = r.h /\ updateData' = Thrown
        ELSE IF isArray(r.h, r.v)
        THEN heap' = r.h /\ updateData' = r.v
        ELSE /\ heap' = Append(r.h, [t |-> "list", items |-> <<r.v>>])
             /\ updateData' = Ref(Len(r.h) + 1)
  /\ heapBefore' = heap
  /\ UNCHANGED <<bldVars, escVars, reqVars, cliVars, doc, normalized, renormalized>>

NextDates ==
  \/ NewContainer
  \/ WrapInList
  \/ WrapInObject
  \/ PushScalar
  \/ SetKey
  \/ ConvertCall
  \/ ConvertAgain
  \/ AddDocuments

SpecDates == InitDates /\ [][NextDates]_vars

----------------------------------------------------------------------------
(* C3 - C6: the date normalizer *)

\* the caller's value as it was when the normalizer was entered
DocBefore == Tree(heapBefore, doc)

RECURSIVE ShapeKept(_, _, _)
\* out is in with a string in the place of every Date (null in the place of
\* an invalid one, if invalidIsNull), and with the same scalars, list
\* lengths, element order and keys
ShapeKept(in, out, invalidIsNull) ==
  CASE in.t = "date" ->
         IF invalidIsNull /\ ~in.valid THEN out = Null ELSE out.t = "str"
    [] in.t = "list" ->
         /\ out.t = "list"
         /\ Len(out.items) = Len(in.items)
         /\ \A i \in 1..Len(in.items) : ShapeKept(in.items[i], out.items[i], invalidIsNull)
    [] in.t = "obj" ->
         /\ out.t = "obj"
         /\ Len(out.e) = Len(in.e)
         /\ \A i \in 1..Len(in.e) :
              /\ out.e[i].k = in.e[i].k
              /\ ShapeKept(in.e[i].v, out.e[i].v, invalidIsNull)
    [] OTHER -> out = in

\* C3 as claimed: the result has a string in the place of every Date, and the
\* same non-date scalars, list lengths, element order and key sets.
C3_AsClaimed ==
  normalized # NotCalled =>
    ShapeKept(DocBefore, Tree(heap, normalized), FALSE)

\* C3, amended: the result has a string in the place of every valid Date and
\* null in the place of every invalid Date, and the same non-date scalars,
\* list lengths, element order and key sets.
C3_DatesReplaced ==
  normalized # NotCalled =>
    ShapeKept(DocBefore, Tree(heap, normalized), TRUE)

C3_Witness ==
  /\ normalized # NotCalled
  /\ DocBefore =
       [t |-> "obj",
        e |-> <<[k |-> <<"b">>, v |-> [t |-> "list", items |-> <<Num(0), DateOf(0)>>]],
                [k |-> <<"a">>, v |-> InvalidDate]>>]

\* C4: normalizing the normalized value again changes nothing.
C4_Idempotent ==
  renormalized # NotCalled =>
    /\ renormalized # Thrown
    /\ Tree(heap, renormalized) = Tree(heap, normalized)

C4_Witness ==
  /\ renormalized # NotCalled
  /\ DocBefore =
       [t |-> "list",
        items |-> <<[t |-> "obj", e |-> <<[k |-> <<"a">>, v |-> InvalidDate]>>],
                    DateOf(0)>>]

\* the containers of the caller are as they were, and v has none of them
FrameKept(v) ==
  /\ Len(heap) >= Len(heapBefore)
  /\ SubSeq(heap, 1, Len(heapBefore)) = heapBefore
  /\ v # Thrown => Containers(heap, v) \cap (1..Len(heapBefore)) = {}

\* C5: the normalizer leaves the caller's lists, mappings and Dates as they
\* were, and every list or mapping of the result is a new one; the same where
\* addDocuments normalizes the caller's documents.
C5_InputNotMutated ==
  /\ normalized # NotCalled => FrameKept(normalized)
  /\ updateData # NotCalled => FrameKept(updateData)

C5_Witness ==
  /\ updateData # NotCalled
  /\ DocBefore =
       [t |-> "obj",
        e |-> <<[k |-> <<"a">>, v |-> [t |-> "obj", e |-> <<[k |-> <<"b">>, v |-> DateOf(0)]>>]],
                [k |-> <<"b">>, v |-> Null]>>]

IsDigit(c) == \E d \in 0..9 : Digit(d) = c
DigitValue(c) == CHOOSE d \in 0..9 : Digit(d) = c
TwoDigits(s, i) == 10 * DigitValue(s[i]) + DigitValue(s[i + 1])

\* s reads YYYY-MM-DDTHH:mm:ss.sssZ and names the instant ms of January 1970
IsUTCStringOf(s, ms) ==
  /\ Len(s) = 24
  /\ SubSeq(s, 1, 8) = <<"1", "9", "7", "0", "-", "0", "1", "-">>
  /\ s[11] = "T" /\ s[14] = ":" /\ s[17] = ":" /\ s[20] = "." /\ s[24] = "Z"
  /\ \A i \in {9, 10, 12, 13, 15, 16, 18, 19, 21, 22, 23} : IsDigit(s[i])
  /\ ms = (((TwoDigits(s, 9) - 1) * 24 + TwoDigits(s, 12)) * 60 + TwoDigits(s, 15)) * 60000
          + TwoDigits(s, 18) * 1000 + 10 * TwoDigits(s, 21) + DigitValue(s[23])

\* C6: normalizing an invalid Date gives null and no call throws for it; a
\* valid Date gives its UTC ISO-8601 string.
C6_InvalidDateIsNull ==
  /\ normalized # Thrown
  /\ renormalized # Thrown
  /\ updateData # Thrown
  /\ (normalized # NotCalled /\ IsDate(doc)) =>
       IF doc.valid
       THEN IsString(normalized) /\ IsUTCStringOf(normalized.s, doc.ms)
       ELSE normalized = Null

C6_Witness ==
  /\ doc = InvalidDate
  /\ normalized = Null

----------------------------------------------------------------------------
(* The builders: strings *)

\* most setter calls made on one builder
MaxCalls == 2
\* most filters in the list handed to one addFilters call
MaxFilterList == 2
\* most finalizer calls between two setter calls
MaxFinalize == 2

\* '*:*'
MatchAll == <<"*", ":", "*">>

RECURSIVE Join(_, _)
\* Array.prototype.join: the strings of list with sep between them
Join(list, sep) ==
  IF list = <<>> THEN <<>>
  ELSE IF Len(list) = 1 THEN list[1]
  ELSE list[1] \o sep \o Join(Tail(list), sep)

RECURSIVE NumberToString(_)
\* the decimal digits of a non-negative integer
NumberToString(n) ==
  IF n < 10 THEN <<Digit(n)>> ELSE NumberToString(n \div 10) \o <<Digit(n % 10)>>

\* String(v), `${v}`, v.toString() for a string, a number, a boolean;
\* `${undefined}` is 'undefined'
StringOf(v) ==
  CASE v.t = "str" -> v.s
    [] v.t = "num" -> NumberToString(v.n)
    [] v.t = "bool" -> IF v.b THEN <<"t", "r", "u", "e">> ELSE <<"f", "a", "l", "s", "e">>
    [] v.t = "undef" -> <<"u", "n", "d", "e", "f", "i", "n", "e", "d">>

\* encodeURIComponent of one ASCII character: the characters outside
\* A-Z a-z 0-9 - _ . ! ~ * ' ( ) are percent-encoded (the grave accent,
\* which no string of the model holds, is left out)
EncodeChar(c) ==
  CASE c = " " -> <<"%", "2", "0">>
    [] c = "\"" -> <<"%", "2", "2">>
    [] c = "#" -> <<"%", "2", "3">>
    [] c = "$" -> <<"%", "2", "4">>
    [] c = "%" -> <<"%", "2", "5">>
    [] c = "&" -> <<"%", "2", "6">>
    [] c = "+" -> <<"%", "2", "B">>
    [] c = "," -> <<"%", "2", "C">>
    [] c = "/" -> <<"%", "2", "F">>
    [] c = ":" -> <<"%", "3", "A">>
    [] c = ";" -> <<"%", "3", "B">>
    [] c = "<" -> <<"%", "3", "C">>
    [] c = "=" -> <<"%", "3", "D">>
    [] c = ">" -> <<"%", "3", "E">>
    [] c = "?" -> <<"%", "3", "F">>
    [] c = "@" -> <<"%", "4", "0">>
    [] c = "[" -> <<"%", "5", "B">>
    [] c = "\\" -> <<"%", "5", "C">>
    [] c = "]" -> <<"%", "5", "D">>
    [] c = "^" -> <<"%", "5", "E">>
    [] c = "{" -> <<"%", "7", "B">>
    [] c = "|" -> <<"%", "7", "C">>
    [] c = "}" -> <<"%", "7", "D">>
    [] OTHER -> <<c>>

RECURSIVE encodeURIComponent(_)
\* (the string is halved, to keep the evaluation shallow)
encodeURIComponent(s) ==
  IF s = <<>> THEN <<>>
  ELSE IF Len(s) = 1 THEN EncodeChar(s[1])
  ELSE encodeURIComponent(SubSeq(s, 1, Len(s) \div 2))
       \o encodeURIComponent(SubSeq(s, Len(s) \div 2 + 1, Len(s)))

\* URLSearchParams serialization of one character: a space is '+', and of
\* the characters encodeURIComponent keeps, ! ~ ' ( ) are percent-encoded
FormEncodeChar(c) ==
  CASE c = " " -> <<"+">>
    [] c = "!" -> <<"%", "2", "1">>
    [] c = "~" -> <<"%", "7", "E">>
    [] c = "'" -> <<"%", "2", "7">>
    [] c = "(" -> <<"%", "2", "8">>
    [] c = ")" -> <<"%", "2", "9">>
    [] OTHER -> EncodeChar(c)

RECURSIVE FormEncode(_)
FormEncode(s) ==
  IF s = <<>> THEN <<>>
  ELSE IF Len(s) = 1 THEN FormEncodeChar(s[1])
  ELSE FormEncode(SubSeq(s, 1, Len(s) \div 2))
       \o FormEncode(SubSeq(s, Len(s) \div 2 + 1, Len(s)))

RECURSIVE ReplaceChar(_, _, _)
\* s.replace(/c/g, rep) for a one-character pattern
ReplaceChar(s, c, rep) ==
  IF s = <<>> THEN <<>>
  ELSE IF Len(s) = 1 THEN (IF s[1] = c THEN rep ELSE s)
  ELSE ReplaceChar(SubSeq(s, 1, Len(s) \div 2), c, rep)
       \o ReplaceChar(SubSeq(s, Len(s) \div 2 + 1, Len(s)), c, rep)

\* Array.isArray of a value given as a tree
IsList(v) == "t" \in DOMAIN v /\ v.t = "list"

\* object property access on a keyed structure
Has(o, k) == k \in DOMAIN o
Put(o, k, v) == [x \in DOMAIN o \cup {k} |-> IF x = k THEN v ELSE o[x]]
Delete(o, k) == [x \in DOMAIN o \ {k} |-> o[x]]

----------------------------------------------------------------------------
(* part_003: the structured Query (JSON Request API) *)

\* the bag is created and left empty
setParam_BagOnly(b, key, value) ==
  IF ~Has(b, "params") THEN Put(b, "params", EmptyObject) ELSE b

\* if (!this.body.params) this.body.params = {}; this.body.params[key] = value
setParam(b, key, value) ==
  LET withBag == IF ~Has(b, "params") THEN Put(b, "params", EmptyObject) ELSE b
  IN Put(withBag, "params", Put(withBag["params"], key, value))

\* this.setParam('defType', parserType)
setParserType(b, parserType) == setParam(b, "defType", parserType)
\* setCursor(cursor = '*'): this.setParam('cursorMark', cursor)
setCursor(b, cursor) ==
  setParam(b, "cursorMark", IF cursor = Undefined THEN Str(<<"*">>) ELSE cursor)
\* this.setParam('debugQuery', 'true')
enableDebug(b) == setParam(b, "debugQuery", Str(<<"t", "r", "u", "e">>))

\* this.body.query = query
setQuery(b, query) == Put(b, "query", query)
\* if (limit) this.body.limit = limit
setLimit_Truthy(b, limit) == IF limit = Num(0) THEN b ELSE Put(b, "limit", limit)
\* this.body.limit = limit
setLimit(b, limit) == Put(b, "limit", limit)
setOffset(b, offset) == Put(b, "offset", offset)

\* if (!this.body.filter) this.body.filter = []; this.body.filter.push(filter)
addFilter(b, filter) ==
  LET withList == IF ~Has(b, "filter") THEN Put(b, "filter", <<>>) ELSE b
  IN Put(withList, "filter", Append(withList["filter"], filter))

\* if (!this.body.filter) this.body.filter = []; this.body.filter.push(...filters)
addFilters(b, filters) ==
  LET withList == IF ~Has(b, "filter") THEN Put(b, "filter", <<>>) ELSE b
  IN Put(withList, "filter", withList["filter"] \o filters)

\* delete this.body.params whatever it holds
toObject_DropsParams(b) == IF Has(b, "params") THEN Delete(b, "params") ELSE b

\* the body after the call, which is also the object returned
toObject(b) ==
  IF Has(b, "params") /\ DOMAIN b["params"] = {} THEN Delete(b, "params") ELSE b

----------------------------------------------------------------------------
(* part_004: the flat Query (query string) *)

COMPLEX_PHRASE_PREFIX ==
  <<"{", "!", "c", "o", "m", "p", "l", "e", "x", "p", "h", "r", "a", "s", "e", " ",
    "i", "n", "O", "r", "d", "e", "r", "=", "t", "r", "u", "e", "}">>

\* a setter of the flat Query returns the parameter list after the call
\* and whether an exception left the call
Done(p) == [parameters |-> p, threw |-> FALSE]
Threw(p) == [parameters |-> p, threw |-> TRUE]

\* options?.complexPhrase
ComplexPhrase(options) == options # Undefined /\ options.complexPhrase

\* this.parameters.push(param)
addRawParameter(p, param) == Append(p, param)

\* this.parameters.push(`defType=${encodeURIComponent(parserType)}`)
setParserTypeFlat(p, parserType) ==
  Append(p, <<"d", "e", "f", "T", "y", "p", "e", "=">> \o encodeURIComponent(parserType.s))

\* new URLSearchParams(query).toString()
URLSearchParamsToString(query) ==
  Join([i \in DOMAIN query.e |->
          FormEncode(query.e[i].k) \o <<"=">> \o FormEncode(StringOf(query.e[i].v))],
       <<"&">>)

\* setQuery of the flat Query, for a string and for a key-value object
setQueryFlat(p, query, options) ==
  LET queryString ==
        IF IsString(query) THEN encodeURIComponent(query.s)
        ELSE ReplaceChar(ReplaceChar(URLSearchParamsToString(query), "=", <<":">>),
                         "&", <<" ", "A", "N", "D", " ">>)
      prefix == IF ComplexPhrase(options) THEN COMPLEX_PHRASE_PREFIX ELSE <<>>
  IN Append(p, <<"q", "=">> \o encodeURIComponent(prefix) \o queryString)

\* this.parameters.push(`start=${offset}`)
setOffsetFlat(p, offset) == Append(p, <<"s", "t", "a", "r", "t", "=">> \o StringOf(offset))
\* this.parameters.push(`rows=${limit}`)
setLimitFlat(p, limit) == Append(p, <<"r", "o", "w", "s", "=">> \o StringOf(limit))

\* convertDatesToISO(v).toString(): a TypeError when the converted value
\* is null
ConvertedToString(v) ==
  LET c == convertDatesToISO(<<>>, v).v
  IN IF c.t \in {"null", "undef", "throw"} THEN Thrown ELSE Str(StringOf(c))

addMatchFilter(p, field, value, options) ==
  LET values == IF IsList(value) THEN value.items ELSE <<value>>
      formattedValues == [i \in DOMAIN values |-> ConvertedToString(values[i])]
      valueString ==
        IF Len(formattedValues) > 1
        THEN <<"(">> \o Join([i \in DOMAIN values |-> formattedValues[i].s],
                             <<" ", "O", "R", " ">>) \o <<")">>
        ELSE IF Len(formattedValues) = 1 THEN formattedValues[1].s
        ELSE StringOf(Undefined)
      fieldPrefix == IF ComplexPhrase(options) THEN COMPLEX_PHRASE_PREFIX \o field ELSE field
  IN IF \E i \in DOMAIN values : formattedValues[i] = Thrown THEN Threw(p)
     ELSE Done(Append(p, <<"f", "q", "=">>
                         \o encodeURIComponent(fieldPrefix \o <<":">> \o valueString)))

RECURSIVE ForEachFilter(_, _, _)
\* filterArray.forEach(f => this.addMatchFilter(...)), from element i on
ForEachFilter(p, filterArray, i) ==
  IF i > Len(filterArray) THEN Done(p)
  ELSE LET r == addMatchFilter(p, filterArray[i].field, filterArray[i].value,
                               filterArray[i].matchFilterOptions)
       IN IF r.threw THEN r ELSE ForEachFilter(r.parameters, filterArray, i + 1)

\* addFilters of the flat Query, for one filter and for a list of filters
addFiltersFlat(p, filters) ==
  ForEachFilter(p, IF IsList(filters) THEN filters.items ELSE <<filters>>, 1)

\* this.parameters.join('&')
toString(p) == Join(p, <<"&">>)

----------------------------------------------------------------------------
(* part_001: the Collection *)

\* a value that is undefined or null is skipped
\* this.parameters.unshift(`${key}=${encodedValue}`)
addParameter_Unshift(p, key, value, encode) ==
  IF value.t \notin {"undef", "null"}
  THEN <<key \o <<"=">>
         \o (IF encode THEN encodeURIComponent(StringOf(value)) ELSE StringOf(value))>> \o p
  ELSE p

addParameter(p, key, value, encode) ==
  IF value.t \notin {"undef", "null"}
  THEN Append(p, key \o <<"=">>
                 \o (IF encode THEN encodeURIComponent(StringOf(value)) ELSE StringOf(value)))
  ELSE p

reload(p, name) ==
  addParameter(addParameter(p, <<"a", "c", "t", "i", "o", "n">>,
                            Str(<<"R", "E", "L", "O", "A", "D">>), FALSE),
               <<"n", "a", "m", "e">>, name, TRUE)

createShard(p, config) ==
  addParameter(
    addParameter(
      addParameter(p, <<"a", "c", "t", "i", "o", "n">>,
                   Str(<<"C", "R", "E", "A", "T", "E", "S", "H", "A", "R", "D">>), FALSE),
      <<"c", "o", "l", "l", "e", "c", "t", "i", "o", "n">>, config.collection, TRUE),
    <<"s", "h", "a", "r", "d">>, config.shard, TRUE)

\* this.parameters.join('&')
toQueryString(p) == Join(p, <<"&">>)

----------------------------------------------------------------------------
(* The builders: the calls a caller makes *)

\* main queries
Queries == {Str(MatchAll), Str(<<"a", ":", "1">>)}
\* a main query given as a key-value object
QueryObject == [t |-> "obj", e |-> << [k |-> <<"a">>, v |-> Str(<<"1">>)],
                                      [k |-> <<"b">>, v |-> Str(<<"x", " ", "y">>)] >>]
ParserTypes == {Str(<<"d", "i", "s", "m", "a", "x">>)}
Cursors == {Undefined, Str(<<"A", "=">>)}
Limits == {Num(0), Num(10)}
\* filter expressions of the structured Query
FilterExprs == {Str(<<"a", ":", "1">>), Str(<<"b", ":", "2">>)}
\* MatchFilterOptions, or none given
Options == {Undefined, [complexPhrase |-> TRUE]}

Filter(field, value, options) ==
  [field |-> field, value |-> value, matchFilterOptions |-> options]
\* Filters of the flat Query: a string, a list of numbers, an empty list,
\* a valid and an invalid Date, a list with an invalid Date, a phrase with
\* options
FlatFilters ==
  { Filter(<<"a">>, Str(<<"1">>), Undefined),
    Filter(<<"b">>, [t |-> "list", items |-> <<Num(2), Num(13)>>], Undefined),
    Filter(<<"b">>, [t |-> "list", items |-> <<>>], Undefined),
    Filter(<<"d">>, DateOf(0), Undefined),
    Filter(<<"d">>, InvalidDate, Undefined),
    Filter(<<"d">>, [t |-> "list", items |-> <<DateOf(0), InvalidDate>>], Undefined),
    Filter(<<"a">>, Str(<<"x", " ", "y">>), [complexPhrase |-> TRUE]) }
\* the filters that occur in lists
ListedFilters ==
  { Filter(<<"a">>, Str(<<"1">>), Undefined), Filter(<<"d">>, InvalidDate, Undefined) }

\* the lists of at most MaxFilterList elements of S
ListsOf(S) == UNION {[1..n -> S] : n \in 0..MaxFilterList}

InitBuilders ==
  /\ EscIdle
  /\ ReqIdle
  /\ CliIdle
  /\ NormIdle
  /\ builder \in {"json", "flat", "admin", "inline"}
  /\ body = IF builder = "json" THEN [query |-> Str(MatchAll)] ELSE EmptyObject
  /\ parameters = <<>>
  /\ finalized = <<>>
  /\ calls = 0
  /\ placed = {}
  /\ added = <<>>
  /\ raised = FALSE
  /\ call = NotCalled
  /\ earlier = NotCalled
  /\ returned = NotCalled

\* a setter call can be made on the builder of this kind
Open(kind) == builder = kind /\ calls < MaxCalls
\* the call recorded: the setter's name and its argument
Call(op, arg) == [t |-> "call", op |-> op, arg |-> arg]
Called(op) == call # NotCalled /\ call.op = op
\* the finalizer output that a setter call leaves behind
Earlier ==
  IF finalized = <<>> THEN NotCalled
  ELSE [t |-> "read", out |-> finalized[Len(finalized)].out]
\* a setter call was made and returned; toObject hands out this.body
\* itself, so what the caller holds changes with it
Returned ==
  /\ calls' = calls + 1
  /\ finalized' = <<>>
  /\ earlier' = Earlier
  /\ raised' = FALSE
  /\ returned' = IF returned = NotCalled THEN NotCalled ELSE body'

SetQuery ==
  /\ Open("json")
  /\ \E q \in Queries : body' = setQuery(body, q)
  /\ Returned
  /\ UNCHANGED <<escVars, normVars, reqVars, cliVars, call, builder, parameters, placed, added>>

SetLimit ==
  /\ Open("json")
  /\ \E n \in Limits :
       /\ body' = setLimit(body, n)
       /\ call' = Call("setLimit", n)
  /\ Returned
  /\ UNCHANGED <<escVars, normVars, reqVars, cliVars, builder, parameters, placed, added>>

SetOffset ==
  /\ Open("json")
  /\ \E n \in Limits :
       /\ body' = setOffset(body, n)
       /\ call' = Call("setOffset", n)
  /\ Returned
  /\ UNCHANGED <<escVars, normVars, reqVars, cliVars, builder, parameters, placed, added>>

SetParserType ==
  /\ Open("json")
  /\ \E t \in ParserTypes : body' = setParserType(body, t)
  /\ placed' = placed \cup {"defType"}
  /\ Returned
  /\ UNCHANGED <<escVars, normVars, reqVars, cliVars, call, builder, parameters, added>>

SetCursor ==
  /\ Open("json")
  /\ \E c \in Cursors : body' = setCursor(body, c)
  /\ placed' = placed \cup {"cursorMark"}
  /\ Returned
  /\ UNCHANGED <<escVars, normVars, reqVars, cliVars, call, builder, parameters, added>>

EnableDebug ==
  /\ Open("json")
  /\ body' = enableDebug(body)
  /\ placed' = placed \cup {"debugQuery"}
  /\ Returned
  /\ UNCHANGED <<escVars, normVars, reqVars, cliVars, call, builder, parameters, added>>

AddFilter ==
  /\ Open("json")
  /\ \E f \in FilterExprs :
       /\ body' = addFilter(body, f)
       /\ added' = Append(added, f)
  /\ Returned
  /\ UNCHANGED <<escVars, normVars, reqVars, cliVars, call, builder, parameters, placed>>

AddFilters ==
  /\ Open("json")
  /\ \E fs \in ListsOf(FilterExprs) :
       /\ body' = addFilters(body, fs)
       /\ added' = added \o fs
  /\ Returned
  /\ UNCHANGED <<escVars, normVars, reqVars, cliVars, call, builder, parameters, placed>>

ToObject ==
  /\ builder = "json"
  /\ Len(finalized) < MaxFinalize
  /\ body' = toObject(body)
  /\ finalized' = Append(finalized, [read |-> body, out |-> body'])
  /\ returned' = body'
  /\ UNCHANGED <<escVars, normVars, reqVars, cliVars, call, builder, parameters, calls, placed, added, raised,
               earlier>>

FlatAddRawParameter ==
  /\ Open("flat")
  /\ parameters' = addRawParameter(parameters, <<"w", "t", "=", "j", "s", "o", "n">>)
  /\ Returned
  /\ UNCHANGED <<escVars, normVars, reqVars, cliVars, call, builder, body, placed, added>>

FlatSetParserType ==
  /\ Open("flat")
  /\ \E t \in ParserTypes : parameters' = setParserTypeFlat(parameters, t)
  /\ Returned
  /\ UNCHANGED <<escVars, normVars, reqVars, cliVars, call, builder, body, placed, added>>

FlatSetQuery ==
  /\ Open("flat")
  /\ \E q \in {Str(MatchAll), QueryObject}, o \in Options :
       parameters' = setQueryFlat(parameters, q, o)
  /\ Returned
  /\ UNCHANGED <<escVars, normVars, reqVars, cliVars, call, builder, body, placed, added>>

FlatSetOffset ==
  /\ Open("flat")
  /\ \E n \in Limits :
       /\ parameters' = setOffsetFlat(parameters, n)
       /\ call' = Call("setOffset", n)
  /\ Returned
  /\ UNCHANGED <<escVars, normVars, reqVars, cliVars, builder, body, placed, added>>

FlatSetLimit ==
  /\ Open("flat")
  /\ \E n \in Limits :
       /\ parameters' = setLimitFlat(parameters, n)
       /\ call' = Call("setLimit", n)
  /\ Returned
  /\ UNCHANGED <<escVars, normVars, reqVars, cliVars, builder, body, placed, added>>

\* an exception leaves the call: the caller goes on with the builder as
\* the call left it
FlatAddMatchFilter ==
  /\ Open("flat")
  /\ \E f \in FlatFilters :
       LET r == addMatchFilter(parameters, f.field, f.value, f.matchFilterOptions)
       IN /\ parameters' = r.parameters
          /\ raised' = r.threw
          /\ added' = Append(added, f)
  /\ calls' = calls + 1
  /\ finalized' = <<>>
  /\ earlier' = Earlier
  /\ UNCHANGED <<returned, escVars, normVars, reqVars, cliVars, call, builder, body, placed>>

FlatAddFilters ==
  /\ Open("flat")
  /\ \E fs \in FlatFilters \cup {[t |-> "list", items |-> l] : l \in ListsOf(ListedFilters)} :
       LET r == addFiltersFlat(parameters, fs)
       IN /\ parameters' = r.parameters
          /\ raised' = r.threw
          /\ added' = added \o (IF IsList(fs) THEN fs.items ELSE <<fs>>)
  /\ calls' = calls + 1
  /\ finalized' = <<>>
  /\ earlier' = Earlier
  /\ UNCHANGED <<returned, escVars, normVars, reqVars, cliVars, call, builder, body, placed>>

FlatToString ==
  /\ builder = "flat"
  /\ Len(finalized) < MaxFinalize
  /\ finalized' = Append(finalized, [read |-> parameters, out |-> toString(parameters)])
  /\ UNCHANGED <<escVars, normVars, reqVars, cliVars, call, builder, body, parameters, calls, placed, added, raised,
               earlier, returned>>

CollectionNames == {Str(<<"c", "1">>), Str(<<"c", " ", "2">>)}

Reload ==
  /\ Open("admin")
  /\ \E name \in CollectionNames : parameters' = reload(parameters, name)
  /\ Returned
  /\ UNCHANGED <<escVars, normVars, reqVars, cliVars, call, builder, body, placed, added>>

CreateShard ==
  /\ Open("admin")
  /\ \E c \in CollectionNames :
       parameters' = createShard(parameters, [collection |-> c, shard |-> Str(<<"s", "1">>)])
  /\ Returned
  /\ UNCHANGED <<escVars, normVars, reqVars, cliVars, call, builder, body, placed, added>>

\* Collection.addRawParameter: this.parameters.push(param)
AdminAddRawParameter ==
  /\ \/ Open("admin")
     \/ Open("inline")
  /\ parameters' = Append(parameters, <<"a", "s", "y", "n", "c", "=", "7">>)
  /\ Returned
  /\ UNCHANGED <<escVars, normVars, reqVars, cliVars, call, builder, body, placed, added>>

ToQueryString ==
  /\ builder \in {"admin", "inline"}
  /\ Len(finalized) < MaxFinalize
  /\ finalized' = Append(finalized, [read |-> parameters, out |-> toQueryString(parameters)])
  /\ UNCHANGED <<escVars, normVars, reqVars, cliVars, call, builder, body, parameters, calls, placed, added, raised,
               earlier, returned>>

----------------------------------------------------------------------------
(* The builders: finalization *)

\* String.prototype.split for a one-character separator
Split(s, sep) ==
  LET cuts == {i \in 1..Len(s) : s[i] = sep}
      n == Cardinality(cuts)
      cut(k) == IF k = 0 THEN 0
                ELSE IF k = n + 1 THEN Len(s) + 1
                ELSE CHOOSE i \in cuts : Cardinality({j \in cuts : j <= i}) = k
  IN [k \in 1..(n + 1) |-> SubSeq(s, cut(k - 1) + 1, cut(k) - 1)]

StartsWith(s, prefix) == Len(s) >= Len(prefix) /\ SubSeq(s, 1, Len(prefix)) = prefix

\* the key=value fragments of a query string whose key is key
FragmentsOf(queryString, key) ==
  SelectSeq(Split(queryString, "&"), LAMBDA f : StartsWith(f, key \o <<"=">>))

\* the filter list of a request body
FilterList(request) == IF Has(request, "filter") THEN request["filter"] ELSE <<>>

\* C7: a Query builder on which no setter was called finalizes to a request
\* whose main query is the match-all query '*:*' and that has no filter:
\* the body of toObject has query '*:*' and no filter, the string of
\* toString has the one main-query fragment q=*%3A* and no fq fragment.
C7_EmptyBuilderMatchesAll ==
  \A i \in DOMAIN finalized :
    calls = 0 =>
      /\ (builder = "json") =>
           /\ Has(finalized[i].out, "query")
           /\ finalized[i].out["query"] = Str(MatchAll)
           /\ FilterList(finalized[i].out) = <<>>
      /\ (builder = "flat") =>
           /\ FragmentsOf(finalized[i].out, <<"q">>)
                = << <<"q", "=">> \o encodeURIComponent(MatchAll) >>
           /\ FragmentsOf(finalized[i].out, <<"f", "q">>) = <<>>

\* C8: finalizing a builder again with no setter call in between returns
\* the same output, and reads the same builder state, as the first time
\* (toObject, toString and toQueryString).
C8_FinalizeRepeatable ==
  \A i, j \in DOMAIN finalized :
    /\ finalized[i].out = finalized[j].out
    /\ finalized[i].read = finalized[j].read

\* toObject called twice on a body with a params bag and a filter list
C8_Witness ==
  /\ builder = "json"
  /\ Len(finalized) = 2
  /\ placed # {}
  /\ Len(added) = 2

\* C9: the body returned by toObject has the key `params` exactly when a
\* parameter was placed with setParam; the bag then holds the keys placed,
\* so it is never empty.
C9_ParamsIffPlaced ==
  \A i \in DOMAIN finalized :
    (builder = "json") =>
      /\ Has(finalized[i].out, "params") <=> (placed # {})
      /\ Has(finalized[i].out, "params") =>
           /\ DOMAIN finalized[i].out["params"] # {}
           /\ DOMAIN finalized[i].out["params"] = placed

\* toObject after setParserType and setCursor
C9_Witness ==
  /\ builder = "json"
  /\ finalized # <<>>
  /\ placed = {"defType", "cursorMark"}
  /\ DOMAIN finalized[1].out["params"] = {"defType", "cursorMark"}

\* the field of a flat filter as addMatchFilter writes it
ClauseField(f) ==
  IF ComplexPhrase(f.matchFilterOptions) THEN COMPLEX_PHRASE_PREFIX \o f.field ELSE f.field

\* C10: the finalized request holds one filter clause per filter handed to
\* addFilter / addFilters / addMatchFilter, in the order of the calls: the
\* filter list of the body is the list of the expressions added, and the
\* fq fragments of the query string are, one for one, the clauses of the
\* filters added.
C10_OneClausePerFilter ==
  /\ (builder = "json") => FilterList(toObject(body)) = added
  /\ (builder = "flat") =>
       LET fqs == FragmentsOf(toString(parameters), <<"f", "q">>)
       IN /\ Len(fqs) = Len(added)
          /\ \A i \in DOMAIN fqs :
               StartsWith(fqs[i], <<"f", "q", "=">>
                                  \o encodeURIComponent(ClauseField(added[i]) \o <<":">>))

\* C22: no filter setter of a Query builder throws: adding a filter whose
\* value is a Date, alone or in a value list, returns without an exception
\* also when the Date is invalid.
C22_FiltersNeverThrow == ~raised

\* C14: after setLimit(n) the finalized request holds the limit n, and after
\* setOffset(n) the offset n, for n = 0 as for any other n: as body.limit
\* and body.offset, and as the last rows=n and start=n fragment of the
\* query string.
C14_LimitAsGiven ==
  \A i \in DOMAIN finalized :
    /\ (Called("setLimit") /\ builder = "json") =>
         Has(finalized[i].out, "limit") /\ finalized[i].out["limit"] = call.arg
    /\ (Called("setOffset") /\ builder = "json") =>
         Has(finalized[i].out, "offset") /\ finalized[i].out["offset"] = call.arg
    /\ (Called("setLimit") /\ builder = "flat") =>
         LET rows == FragmentsOf(finalized[i].out, <<"r", "o", "w", "s">>)
         IN rows # <<>> /\ rows[Len(rows)] = <<"r", "o", "w", "s", "=">> \o NumberToString(call.arg.n)
    /\ (Called("setOffset") /\ builder = "flat") =>
         LET start == FragmentsOf(finalized[i].out, <<"s", "t", "a", "r", "t">>)
         IN start # <<>>
            /\ start[Len(start)] = <<"s", "t", "a", "r", "t", "=">> \o NumberToString(call.arg.n)

\* setLimit(0) after another setter, then toObject: the body has limit 0
C14_Witness ==
  /\ builder = "json"
  /\ calls = 2
  /\ Called("setLimit")
  /\ call.arg = Num(0)
  /\ finalized # <<>>
  /\ finalized[1].out["limit"] = Num(0)

----------------------------------------------------------------------------
(* The setters that take a configuration object: one call on a new builder *)

IsContainer(tree) == tree.t \in {"list", "obj"}
\* the elements of an array, the values of an object
Children(tree) ==
  IF tree.t = "list" THEN tree.items
  ELSE IF tree.t = "obj" THEN [i \in DOMAIN tree.e |-> tree.e[i].v]
  ELSE <<>>

RECURSIVE Paths(_)
\* the arrays and objects of a tree, each by its path of child indexes
Paths(tree) ==
  IF ~IsContainer(tree) THEN {}
  ELSE {<<>>} \cup UNION { { <<i>> \o p : p \in Paths(Children(tree)[i]) } :
                             i \in DOMAIN Children(tree) }

RECURSIVE Node(_, _)
\* the value at path p
Node(tree, p) == IF p = <<>> THEN tree ELSE Node(Children(tree)[Head(p)], Tail(p))

\* q is allocated before p: q lies inside p, or in a child to the left of
\* the one that leads to p
AllocatedBefore(q, p) ==
  /\ q # p
  /\ \/ Len(p) < Len(q) /\ SubSeq(q, 1, Len(p)) = p
     \/ \E j \in 1..Len(q) :
          /\ j <= Len(p)
          /\ SubSeq(q, 1, j - 1) = SubSeq(p, 1, j - 1)
          /\ q[j] < p[j]

\* the caller's literal: the arrays and objects of a value given as a tree
\* are allocated on heap h, the children of each before it, from left to
\* right
Alloc(h, tree) ==
  IF ~IsContainer(tree) THEN [h |-> h, v |-> tree]
  ELSE LET paths == Paths(tree)
           id(p) == Len(h) + 1 + Cardinality({q \in paths : AllocatedBefore(q, p)})
           value(p, i) == LET c == Children(Node(tree, p))[i]
                          IN IF IsContainer(c) THEN Ref(id(p \o <<i>>)) ELSE c
           cell(p) == LET n == Node(tree, p)
                      IN IF n.t = "list"
                         THEN [t |-> "list", items |-> [i \in DOMAIN n.items |-> value(p, i)]]
                         ELSE [t |-> "obj",
                               e |-> [i \in DOMAIN n.e |-> [k |-> n.e[i].k, v |-> value(p, i)]]]
       IN [h |-> h \o [n \in 1..Cardinality(paths) |->
                         cell(CHOOSE p \in paths : id(p) = Len(h) + n)],
           v |-> Ref(id(<<>>))]

\* convertDatesToISO(config) for a configuration given as a tree: the
\* converted copy, read out as a tree
Converted(tree) ==
  LET a == Alloc(<<>>, tree)
      r == convertDatesToISO(a.h, a.v)
  IN IF r.v = Thrown THEN Thrown ELSE Tree(r.h, r.v)

\* o[key] and o.key: undefined when the object has no such key
Get(o, key) ==
  IF \E i \in DOMAIN o.e : o.e[i].k = key
  THEN o.e[CHOOSE i \in DOMAIN o.e : o.e[i].k = key].v
  ELSE Undefined

\* an object literal: the keys whose value is undefined are left out
Object(entries) == [t |-> "obj", e |-> SelectSeq(entries, LAMBDA en : en.v # Undefined)]
List(items) == [t |-> "list", items |-> items]

\* v || d
Nullish_Falsy(v, d) ==
  IF v.t \in {"null", "undef"} \/ v = Num(0) \/ v = Str(<<>>) THEN d ELSE v

\* v ?? d
Nullish(v, d) == IF v.t \in {"null", "undef"} THEN d ELSE v

\* `${field}:[${start ?? '*'} TO ${end ?? '*'}]`
RangeClause(o) ==
  StringOf(Get(o, <<"f", "i", "e", "l", "d">>)) \o <<":", "[">>
  \o StringOf(Nullish(Get(o, <<"s", "t", "a", "r", "t">>), Str(<<"*">>)))
  \o <<" ", "T", "O", " ">>
  \o StringOf(Nullish(Get(o, <<"e", "n", "d">>), Str(<<"*">>))) \o <<"]">>

\* the clauses of addRangeFilter, for one range and for a list of ranges
RangeFilters(dateRange) ==
  LET normalizedOptions == Converted(dateRange)
  IN IF IsList(normalizedOptions)
     THEN [i \in DOMAIN normalizedOptions.items |-> RangeClause(normalizedOptions.items[i])]
     ELSE <<RangeClause(normalizedOptions)>>

\* part_003: this.addFilters(filters)
addRangeFilter(b, dateRange) ==
  LET filters == RangeFilters(dateRange)
  IN addFilters(b, [i \in DOMAIN filters |-> Str(filters[i])])

\* part_004: this.parameters.push(`fq=${encodeURIComponent(filters.join(' AND '))}`)
addRangeFilterFlat(p, dateRange) ==
  Append(p, <<"f", "q", "=">>
            \o encodeURIComponent(Join(RangeFilters(dateRange), <<" ", "A", "N", "D", " ">>)))

\* the bounds of a range: none given, numbers, a string, a valid and an
\* invalid Date
Bounds == {Undefined, Num(0), Num(25), Str(<<"N", "O", "W">>), DateOf(0), InvalidDate}

DateRange(field, start, end) ==
  Object(<< [k |-> <<"f", "i", "e", "l", "d">>, v |-> Str(field)],
            [k |-> <<"s", "t", "a", "r", "t">>, v |-> start],
            [k |-> <<"e", "n", "d">>, v |-> end] >>)

DateRanges == {DateRange(<<"p">>, s, e) : s, e \in Bounds}
\* the ranges that occur in lists
ListedRanges ==
  { DateRange(<<"p">>, Num(0), Undefined),
    DateRange(<<"d">>, DateOf(0), DateOf(90061001)),
    DateRange(<<"d">>, Undefined, Str(<<"N", "O", "W">>)) }

InitSetters ==
  /\ EscIdle
  /\ ReqIdle
  /\ CliIdle
  /\ NormIdle
  /\ builder \in {"json", "flat", "admin", "inline"}
  /\ body = IF builder = "json" THEN [query |-> Str(MatchAll)] ELSE EmptyObject
  /\ parameters = <<>>
  /\ finalized = <<>>
  /\ calls = 0
  /\ placed = {}
  /\ added = <<>>
  /\ raised = FALSE
  /\ call = NotCalled
  /\ earlier = NotCalled
  /\ returned = NotCalled

\* the builder of this kind is new: no setter was called on it
New(kind) == builder = kind /\ calls = 0

AddRangeFilter ==
  /\ New("json")
  /\ \E r \in DateRanges \cup {List(l) : l \in ListsOf(ListedRanges)} :
       /\ body' = addRangeFilter(body, r)
       /\ call' = Call("addRangeFilter", r)
  /\ Returned
  /\ UNCHANGED <<escVars, normVars, reqVars, cliVars, builder, parameters, placed, added>>

FlatAddRangeFilter ==
  /\ New("flat")
  /\ \E r \in DateRanges \cup {List(l) : l \in ListsOf(ListedRanges)} :
       /\ parameters' = addRangeFilterFlat(parameters, r)
       /\ call' = Call("addRangeFilter", r)
  /\ Returned
  /\ UNCHANGED <<escVars, normVars, reqVars, cliVars, builder, body, placed, added>>

\* C11 -------------------------------------------------------------------

\* a bound as the clause shows it
ShownBound(b) ==
  CASE b.t = "undef" -> <<"*">>
    [] b.t = "date" -> IF b.valid THEN toISOString(b).s ELSE <<"*">>
    [] b.t = "num" -> NumberToString(b.n)
    [] b.t = "str" -> b.s

\* field:[S TO E]
ShownRange(r) ==
  Get(r, <<"f", "i", "e", "l", "d">>).s \o <<":", "[">>
  \o ShownBound(Get(r, <<"s", "t", "a", "r", "t">>)) \o <<" ", "T", "O", " ">>
  \o ShownBound(Get(r, <<"e", "n", "d">>)) \o <<"]">>

RangesOf(arg) == IF IsList(arg) THEN arg.items ELSE <<arg>>

----------------------------------------------------------------------------
(* setSort *)

\* most fields of a sort mapping
MaxSortFields == 2

\* the entries in reverse order
SortString_Reversed(fields) ==
  Join([i \in DOMAIN fields.e |->
          fields.e[Len(fields.e) + 1 - i].k \o <<" ">>
          \o StringOf(fields.e[Len(fields.e) + 1 - i].v)],
       <<",">>)

\* Object.entries(fields).map(([field, direction]) => `${field} ${direction}`).join(',')
SortString(fields) ==
  Join([i \in DOMAIN fields.e |-> fields.e[i].k \o <<" ">> \o StringOf(fields.e[i].v)],
       <<",">>)

\* part_003: this.body.sort = sortString
setSort(b, fields) == Put(b, "sort", Str(SortString(fields)))
\* part_004: this.parameters.push(`sort=${encodeURIComponent(sortString)}`)
setSortFlat(p, fields) ==
  Append(p, <<"s", "o", "r", "t", "=">> \o encodeURIComponent(SortString(fields)))

SortFields == {<<"r", "a", "t", "e">>, <<"n">>, <<"a", "g", "e">>}
Directions == {Str(<<"a", "s", "c">>), Str(<<"d", "e", "s", "c">>)}
\* the mappings of at most MaxSortFields different fields, in every key order
SortMappings ==
  { [t |-> "obj", e |-> [i \in 1..n |-> [k |-> ks[i], v |-> ds[i]]]] :
      <<n, ks, ds>> \in
        { x \in UNION { {n} \X [1..n -> SortFields] \X [1..n -> Directions] :
                        n \in 0..MaxSortFields } :
            \A i, j \in 1..x[1] : i # j => x[2][i] # x[2][j] } }

SetSort ==
  /\ New("json")
  /\ \E fields \in SortMappings :
       /\ body' = setSort(body, fields)
       /\ call' = Call("setSort", fields)
  /\ Returned
  /\ UNCHANGED <<escVars, normVars, reqVars, cliVars, builder, parameters, placed, added>>

FlatSetSort ==
  /\ New("flat")
  /\ \E fields \in SortMappings :
       /\ parameters' = setSortFlat(parameters, fields)
       /\ call' = Call("setSort", fields)
  /\ Returned
  /\ UNCHANGED <<escVars, normVars, reqVars, cliVars, builder, body, placed, added>>

\* the `field direction` entries of a mapping, in the order of its keys
ShownSort(fields) == [i \in DOMAIN fields.e |-> fields.e[i].k \o <<" ">> \o fields.e[i].v.s]

\* C12: after setSort the finalized request has the sort string whose
\* comma-separated entries are `field direction`, one per field of the
\* mapping, in the order of the mapping's keys (the empty string for the
\* empty mapping): as body.sort, and percent-encoded in the one sort
\* fragment of the query string.
C12_SortInOrder ==
  \A i \in DOMAIN finalized :
    Called("setSort") =>
      /\ (builder = "json") =>
           /\ Has(finalized[i].out, "sort")
           /\ IF call.arg.e = <<>> THEN finalized[i].out["sort"] = Str(<<>>)
              ELSE Split(finalized[i].out["sort"].s, ",") = ShownSort(call.arg)
      /\ (builder = "flat") =>
           FragmentsOf(finalized[i].out, <<"s", "o", "r", "t">>)
             = << <<"s", "o", "r", "t", "=">>
                  \o encodeURIComponent(Join(ShownSort(call.arg), <<",">>)) >>

\* setSort({rate: 'desc', n: 'asc'}) on the flat builder
C12_Witness ==
  /\ builder = "flat"
  /\ Called("setSort")
  /\ finalized # <<>>
  /\ finalized[1].out = <<"s", "o", "r", "t", "=", "r", "a", "t", "e", "%", "2", "0",
                          "d", "e", "s", "c", "%", "2", "C", "n", "%", "2", "0",
                          "a", "s", "c">>

----------------------------------------------------------------------------
(* setFacets *)

\* deepest nesting of facets under `facet` keys
MaxFacetDepth == 2

\* this.body.facet = config
setFacets_AsGiven(b, config) == Put(b, "facet", config)

\* this.body.facet = convertDatesToISO(config)
setFacets(b, config) == Put(b, "facet", Converted(config))

Entry(k, v) == [k |-> k, v |-> v]
\* { type: 'terms', field: 'occupation', limit: 10 }
TermsFacet ==
  Object(<< Entry(<<"t", "y", "p", "e">>, Str(<<"t", "e", "r", "m", "s">>)),
            Entry(<<"f", "i", "e", "l", "d">>, Str(<<"o", "c", "c", "u", "p", "a", "t", "i", "o", "n">>)),
            Entry(<<"l", "i", "m", "i", "t">>, Num(10)) >>)
\* { type: 'range', field: 'd', start, end, gap: '+1DAY' }
RangeFacet(start, end) ==
  Object(<< Entry(<<"t", "y", "p", "e">>, Str(<<"r", "a", "n", "g", "e">>)),
            Entry(<<"f", "i", "e", "l", "d">>, Str(<<"d">>)),
            Entry(<<"s", "t", "a", "r", "t">>, start),
            Entry(<<"e", "n", "d">>, end),
            Entry(<<"g", "a", "p">>, Str(<<"+", "1", "D", "A", "Y">>)) >>)
\* { type: 'query', q: '*:*' }
QueryFacet == Object(<< Entry(<<"t", "y", "p", "e">>, Str(<<"q", "u", "e", "r", "y">>)), Entry(<<"q">>, Str(MatchAll)) >>)
\* a facet with sub-facets: { ...parent, facet: config }
WithSubFacets(parent, config) ==
  [parent EXCEPT !.e = Append(@, Entry(<<"f", "a", "c", "e", "t">>, config))]

\* the facets without sub-facets: a terms, a query and two range facets
\* (Date bounds, a 0 bound, an invalid Date) and a stat function
LeafFacets ==
  { TermsFacet, QueryFacet, RangeFacet(DateOf(0), DateOf(90061001)),
    RangeFacet(Num(0), InvalidDate), Str(<<"a", "v", "g", "(", "p", ")">>) }

RECURSIVE FacetDefinitions(_)
RECURSIVE FacetConfigs(_)
\* the facet definitions nested at most d deep
FacetDefinitions(d) ==
  IF d = 1 THEN LeafFacets
  ELSE LeafFacets \cup
       { WithSubFacets(parent, config) :
           parent \in {TermsFacet, QueryFacet}, config \in FacetConfigs(d - 1) }
\* the facet configurations: one named facet, or two of which the second
\* has no sub-facets
FacetConfigs(d) ==
  { Object(<< Entry(<<"x">>, f) >>) : f \in FacetDefinitions(d) }
  \cup { Object(<< Entry(<<"x">>, f), Entry(<<"y">>, g) >>) :
           f \in FacetDefinitions(d), g \in LeafFacets }

SetFacets ==
  /\ New("json")
  /\ \E config \in FacetConfigs(MaxFacetDepth) :
       /\ body' = setFacets(body, config)
       /\ call' = Call("setFacets", config)
  /\ Returned
  /\ UNCHANGED <<escVars, normVars, reqVars, cliVars, builder, parameters, placed, added>>

RECURSIVE WithISODates(_)
\* the tree with every valid Date replaced by its ISO string and every
\* invalid Date by null, and nothing else changed
WithISODates(tree) ==
  CASE tree.t = "list" -> List([i \in DOMAIN tree.items |-> WithISODates(tree.items[i])])
    [] tree.t = "obj" ->
         [t |-> "obj", e |-> [i \in DOMAIN tree.e |->
                                Entry(tree.e[i].k, WithISODates(tree.e[i].v))]]
    [] tree.t = "date" -> IF tree.valid THEN toISOString(tree) ELSE Null
    [] OTHER -> tree

RECURSIVE NoDomainKey(_)
\* no object of the tree has a `domain` key
NoDomainKey(tree) ==
  CASE tree.t = "obj" ->
         \A i \in DOMAIN tree.e : tree.e[i].k # <<"d", "o", "m", "a", "i", "n">> /\ NoDomainKey(tree.e[i].v)
    [] OTHER -> TRUE

----------------------------------------------------------------------------
(* setHighlighting *)

Bool(b) == [t |-> "bool", b |-> b]
\* if (v): undefined, null, false, 0 and '' are not taken
Truthy(v) ==
  /\ v.t \notin {"undef", "null"}
  /\ v # Bool(FALSE)
  /\ v # Num(0)
  /\ v # Str(<<>>)

\* the options written by one `if (config.x) ...` or
\* `if (config.x !== undefined) ...` each, in the order of the code:
\* the one before hl.fl,
HlQparser ==
  <<
     [key |-> <<"q", "p", "a", "r", "s", "e", "r">>,
      name |-> "hl.qparser", chars |-> <<"h", "l", ".", "q", "p", "a", "r", "s", "e", "r">>,
      test |-> "truthy", encode |-> TRUE] >>
\* those between hl.fl and the markers,
HlBeforeMarkers ==
  <<
     [key |-> <<"s", "n", "i", "p", "p", "e", "t", "s">>,
      name |-> "hl.snippets", chars |-> <<"h", "l", ".", "s", "n", "i", "p", "p", "e", "t", "s">>,
      test |-> "truthy", encode |-> FALSE],
     [key |-> <<"f", "r", "a", "g", "s", "i", "z", "e">>,
      name |-> "hl.fragsize", chars |-> <<"h", "l", ".", "f", "r", "a", "g", "s", "i", "z", "e">>,
      test |-> "truthy", encode |-> FALSE],
     [key |-> <<"m", "e", "r", "g", "e", "C", "o", "n", "t", "i", "g", "u", "o", "u", "s">>,
      name |-> "hl.mergeContiguous", chars |-> <<"h", "l", ".", "m", "e", "r", "g", "e", "C", "o", "n", "t", "i", "g", "u", "o", "u", "s">>,
      test |-> "defined", encode |-> FALSE],
     [key |-> <<"r", "e", "q", "u", "i", "r", "e", "F", "i", "e", "l", "d", "M", "a", "t", "c", "h">>,
      name |-> "hl.requireFieldMatch", chars |-> <<"h", "l", ".", "r", "e", "q", "u", "i", "r", "e", "F", "i", "e", "l", "d", "M", "a", "t", "c", "h">>,
      test |-> "defined", encode |-> FALSE],
     [key |-> <<"m", "a", "x", "A", "n", "a", "l", "y", "z", "e", "d", "C", "h", "a", "r", "s">>,
      name |-> "hl.maxAnalyzedChars", chars |-> <<"h", "l", ".", "m", "a", "x", "A", "n", "a", "l", "y", "z", "e", "d", "C", "h", "a", "r", "s">>,
      test |-> "truthy", encode |-> FALSE],
     [key |-> <<"m", "a", "x", "M", "u", "l", "t", "i", "V", "a", "l", "u", "e", "d", "T", "o", "E", "x", "a", "m", "i", "n", "e">>,
      name |-> "hl.maxMultiValuedToExamine", chars |-> <<"h", "l", ".", "m", "a", "x", "M", "u", "l", "t", "i", "V", "a", "l", "u", "e", "d", "T", "o", "E", "x", "a", "m", "i", "n", "e">>,
      test |-> "truthy", encode |-> FALSE],
     [key |-> <<"m", "a", "x", "M", "u", "l", "t", "i", "V", "a", "l", "u", "e", "d", "T", "o", "M", "a", "t", "c", "h">>,
      name |-> "hl.maxMultiValuedToMatch", chars |-> <<"h", "l", ".", "m", "a", "x", "M", "u", "l", "t", "i", "V", "a", "l", "u", "e", "d", "T", "o", "M", "a", "t", "c", "h">>,
      test |-> "truthy", encode |-> FALSE],
     [key |-> <<"a", "l", "t", "e", "r", "n", "a", "t", "e", "F", "i", "e", "l", "d">>,
      name |-> "hl.alternateField", chars |-> <<"h", "l", ".", "a", "l", "t", "e", "r", "n", "a", "t", "e", "F", "i", "e", "l", "d">>,
      test |-> "truthy", encode |-> TRUE],
     [key |-> <<"m", "a", "x", "A", "l", "t", "e", "r", "n", "a", "t", "e", "F", "i", "e", "l", "d", "L", "e", "n", "g", "t", "h">>,
      name |-> "hl.maxAlternateFieldLength", chars |-> <<"h", "l", ".", "m", "a", "x", "A", "l", "t", "e", "r", "n", "a", "t", "e", "F", "i", "e", "l", "d", "L", "e", "n", "g", "t", "h">>,
      test |-> "defined", encode |-> FALSE],
     [key |-> <<"f", "o", "r", "m", "a", "t", "t", "e", "r">>,
      name |-> "hl.formatter", chars |-> <<"h", "l", ".", "f", "o", "r", "m", "a", "t", "t", "e", "r">>,
      test |-> "truthy", encode |-> TRUE] >>
\* and those after the markers
HlAfterMarkers ==
  <<
     [key |-> <<"f", "r", "a", "g", "m", "e", "n", "t", "e", "r">>,
      name |-> "hl.fragmenter", chars |-> <<"h", "l", ".", "f", "r", "a", "g", "m", "e", "n", "t", "e", "r">>,
      test |-> "truthy", encode |-> TRUE],
     [key |-> <<"h", "i", "g", "h", "l", "i", "g", "h", "t", "M", "u", "l", "t", "i", "T", "e", "r", "m">>,
      name |-> "hl.highlightMultiTerm", chars |-> <<"h", "l", ".", "h", "i", "g", "h", "l", "i", "g", "h", "t", "M", "u", "l", "t", "i", "T", "e", "r", "m">>,
      test |-> "defined", encode |-> FALSE],
     [key |-> <<"u", "s", "e", "P", "h", "r", "a", "s", "e", "H", "i", "g", "h", "l", "i", "g", "h", "t", "e", "r">>,
      name |-> "hl.usePhraseHighlighter", chars |-> <<"h", "l", ".", "u", "s", "e", "P", "h", "r", "a", "s", "e", "H", "i", "g", "h", "l", "i", "g", "h", "t", "e", "r">>,
      test |-> "defined", encode |-> FALSE],
     [key |-> <<"r", "e", "g", "e", "x", "S", "l", "o", "p">>,
      name |-> "hl.regex.slop", chars |-> <<"h", "l", ".", "r", "e", "g", "e", "x", ".", "s", "l", "o", "p">>,
      test |-> "truthy", encode |-> FALSE],
     [key |-> <<"r", "e", "g", "e", "x", "P", "a", "t", "t", "e", "r", "n">>,
      name |-> "hl.regex.pattern", chars |-> <<"h", "l", ".", "r", "e", "g", "e", "x", ".", "p", "a", "t", "t", "e", "r", "n">>,
      test |-> "truthy", encode |-> TRUE],
     [key |-> <<"r", "e", "g", "e", "x", "M", "a", "x", "A", "n", "a", "l", "y", "z", "e", "d", "C", "h", "a", "r", "s">>,
      name |-> "hl.regex.maxAnalyzedChars", chars |-> <<"h", "l", ".", "r", "e", "g", "e", "x", ".", "m", "a", "x", "A", "n", "a", "l", "y", "z", "e", "d", "C", "h", "a", "r", "s">>,
      test |-> "truthy", encode |-> FALSE],
     [key |-> <<"p", "r", "e", "s", "e", "r", "v", "e", "M", "u", "l", "t", "i">>,
      name |-> "hl.preserveMulti", chars |-> <<"h", "l", ".", "p", "r", "e", "s", "e", "r", "v", "e", "M", "u", "l", "t", "i">>,
      test |-> "defined", encode |-> FALSE],
     [key |-> <<"p", "a", "y", "l", "o", "a", "d", "s">>,
      name |-> "hl.payloads", chars |-> <<"h", "l", ".", "p", "a", "y", "l", "o", "a", "d", "s">>,
      test |-> "defined", encode |-> FALSE] >>

\* the test of the option of row r on config
Taken(config, r) ==
  IF r.test = "truthy" THEN Truthy(Get(config, r.key)) ELSE Get(config, r.key) # Undefined

RECURSIVE SetOptions(_, _, _)
\* part_003: this.setParam(name, config.x) for the options taken
SetOptions(b, config, rs) ==
  IF rs = <<>> THEN b
  ELSE SetOptions(IF Taken(config, Head(rs))
                  THEN setParam(b, Head(rs).name, Get(config, Head(rs).key))
                  ELSE b,
                  config, Tail(rs))

RECURSIVE PushOptions(_, _, _)
\* part_004: this.parameters.push(`name=${config.x}`) for the options
\* taken, the strings percent-encoded
PushOptions(p, config, rs) ==
  IF rs = <<>> THEN p
  ELSE PushOptions(IF Taken(config, Head(rs))
                   THEN Append(p, Head(rs).chars \o <<"=">>
                                  \o (IF Head(rs).encode
                                      THEN encodeURIComponent(StringOf(Get(config, Head(rs).key)))
                                      ELSE StringOf(Get(config, Head(rs).key))))
                   ELSE p,
                   config, Tail(rs))

\* config.on === false ? 'false' : 'true'
HlOn(config) ==
  IF Get(config, <<"o", "n">>) = Bool(FALSE) THEN <<"f", "a", "l", "s", "e">> ELSE <<"t", "r", "u", "e">>

\* config.simplePre || '<em>'
HighlightMarker_Truthy(v, default) == IF Truthy(v) THEN v ELSE Str(default)

\* config.simplePre ?? '<em>'
HighlightMarker(v, default) == Nullish(v, Str(default))

\* part_003: the string given, or the entries of the object as k:v
\* joined with ' AND '
HlQuery(q) ==
  IF IsString(q) THEN q.s
  ELSE Join([i \in DOMAIN q.e |-> q.e[i].k \o <<":">> \o StringOf(q.e[i].v)],
            <<" ", "A", "N", "D", " ">>)

\* part_003: Array.isArray(config.fl) ? config.fl.join(',') : config.fl
HlFields(fl) ==
  IF IsList(fl) THEN Join([i \in DOMAIN fl.items |-> fl.items[i].s], <<",">>) ELSE fl.s

\* part_003
setHighlighting(b, config) ==
  LET q == Get(config, <<"q">>)
      fl == Get(config, <<"f", "l">>)
      b1 == setParam(b, "hl", Str(HlOn(config)))
      b2 == IF Truthy(q) THEN setParam(b1, "hl.q", Str(HlQuery(q))) ELSE b1
      b3 == SetOptions(b2, config, HlQparser)
      b4 == IF Truthy(fl) THEN setParam(b3, "hl.fl", Str(HlFields(fl))) ELSE b3
      b5 == SetOptions(b4, config, HlBeforeMarkers)
      b6 == setParam(b5, "hl.simple.pre",
                     HighlightMarker(Get(config, <<"s", "i", "m", "p", "l", "e", "P", "r", "e">>), <<"<", "e", "m", ">">>))
      b7 == setParam(b6, "hl.simple.post",
                     HighlightMarker(Get(config, <<"s", "i", "m", "p", "l", "e", "P", "o", "s", "t">>), <<"<", "/", "e", "m", ">">>))
  IN SetOptions(b7, config, HlAfterMarkers)

\* part_004: the string given, or new URLSearchParams(config.q) with = as :
\* and & as ' AND '
HlQueryFlat(q) ==
  IF IsString(q) THEN q.s
  ELSE ReplaceChar(ReplaceChar(URLSearchParamsToString(q), "=", <<":">>), "&", <<" ", "A", "N", "D", " ">>)

\* part_004: typeof config.fl === 'string' ? encodeURIComponent(config.fl)
\* : config.fl.join(',')
HlFieldsFlat(fl) ==
  IF IsString(fl) THEN encodeURIComponent(fl.s)
  ELSE Join([i \in DOMAIN fl.items |-> fl.items[i].s], <<",">>)

\* part_004
setHighlightingFlat(p, config) ==
  LET q == Get(config, <<"q">>)
      fl == Get(config, <<"f", "l">>)
      p1 == Append(p, <<"h", "l", "=">> \o HlOn(config))
      p2 == IF Truthy(q)
            THEN Append(p1, <<"h", "l", ".", "q", "=">> \o encodeURIComponent(HlQueryFlat(q)))
            ELSE p1
      p3 == PushOptions(p2, config, HlQparser)
      p4 == IF Truthy(fl)
            THEN Append(p3, <<"h", "l", ".", "f", "l", "=">> \o encodeURIComponent(HlFieldsFlat(fl)))
            ELSE p3
      p5 == PushOptions(p4, config, HlBeforeMarkers)
      p6 == Append(p5, <<"h", "l", ".", "s", "i", "m", "p", "l", "e", ".", "p", "r", "e", "=">>
                       \o encodeURIComponent(
                            HighlightMarker(Get(config, <<"s", "i", "m", "p", "l", "e", "P", "r", "e">>), <<"<", "e", "m", ">">>).s))
      p7 == Append(p6, <<"h", "l", ".", "s", "i", "m", "p", "l", "e", ".", "p", "o", "s", "t", "=">>
                       \o encodeURIComponent(
                            HighlightMarker(Get(config, <<"s", "i", "m", "p", "l", "e", "P", "o", "s", "t">>), <<"<", "/", "e", "m", ">">>).s))
  IN PushOptions(p7, config, HlAfterMarkers)

\* the other options given with values that pass `if (config.x)`: the
\* first seven of them,
OptionsGiven1 ==
  <<
     Entry(<<"q", "p", "a", "r", "s", "e", "r">>, Str(<<"e", "d", "i", "s", "m", "a", "x">>)),
     Entry(<<"s", "n", "i", "p", "p", "e", "t", "s">>, Num(3)),
     Entry(<<"f", "r", "a", "g", "s", "i", "z", "e">>, Num(3)),
     Entry(<<"m", "e", "r", "g", "e", "C", "o", "n", "t", "i", "g", "u", "o", "u", "s">>, Bool(TRUE)),
     Entry(<<"r", "e", "q", "u", "i", "r", "e", "F", "i", "e", "l", "d", "M", "a", "t", "c", "h">>, Bool(TRUE)),
     Entry(<<"m", "a", "x", "A", "n", "a", "l", "y", "z", "e", "d", "C", "h", "a", "r", "s">>, Num(3)),
     Entry(<<"m", "a", "x", "M", "u", "l", "t", "i", "V", "a", "l", "u", "e", "d", "T", "o", "E", "x", "a", "m", "i", "n", "e">>, Num(3)) >>
\* the next six,
OptionsGiven2 ==
  <<
     Entry(<<"m", "a", "x", "M", "u", "l", "t", "i", "V", "a", "l", "u", "e", "d", "T", "o", "M", "a", "t", "c", "h">>, Num(3)),
     Entry(<<"a", "l", "t", "e", "r", "n", "a", "t", "e", "F", "i", "e", "l", "d">>, Str(<<"a", " ", "b">>)),
     Entry(<<"m", "a", "x", "A", "l", "t", "e", "r", "n", "a", "t", "e", "F", "i", "e", "l", "d", "L", "e", "n", "g", "t", "h">>, Num(3)),
     Entry(<<"f", "o", "r", "m", "a", "t", "t", "e", "r">>, Str(<<"s", "i", "m", "p", "l", "e">>)),
     Entry(<<"f", "r", "a", "g", "m", "e", "n", "t", "e", "r">>, Str(<<"g", "a", "p">>)),
     Entry(<<"h", "i", "g", "h", "l", "i", "g", "h", "t", "M", "u", "l", "t", "i", "T", "e", "r", "m">>, Bool(TRUE)) >>
\* and the last six
OptionsGiven3 ==
  <<
     Entry(<<"u", "s", "e", "P", "h", "r", "a", "s", "e", "H", "i", "g", "h", "l", "i", "g", "h", "t", "e", "r">>, Bool(TRUE)),
     Entry(<<"r", "e", "g", "e", "x", "S", "l", "o", "p">>, Num(3)),
     Entry(<<"r", "e", "g", "e", "x", "P", "a", "t", "t", "e", "r", "n">>, Str(<<"[", "a", "-", "z", "]", "+">>)),
     Entry(<<"r", "e", "g", "e", "x", "M", "a", "x", "A", "n", "a", "l", "y", "z", "e", "d", "C", "h", "a", "r", "s">>, Num(3)),
     Entry(<<"p", "r", "e", "s", "e", "r", "v", "e", "M", "u", "l", "t", "i">>, Bool(TRUE)),
     Entry(<<"p", "a", "y", "l", "o", "a", "d", "s">>, Bool(TRUE)) >>
\* the other options all given, with 0, false and '' for values
OptionsGivenFalsy ==
  <<
     Entry(<<"q", "p", "a", "r", "s", "e", "r">>, Str(<<>>)),
     Entry(<<"s", "n", "i", "p", "p", "e", "t", "s">>, Num(0)),
     Entry(<<"f", "r", "a", "g", "s", "i", "z", "e">>, Num(0)),
     Entry(<<"m", "e", "r", "g", "e", "C", "o", "n", "t", "i", "g", "u", "o", "u", "s">>, Bool(FALSE)),
     Entry(<<"r", "e", "q", "u", "i", "r", "e", "F", "i", "e", "l", "d", "M", "a", "t", "c", "h">>, Bool(FALSE)),
     Entry(<<"m", "a", "x", "A", "n", "a", "l", "y", "z", "e", "d", "C", "h", "a", "r", "s">>, Num(0)),
     Entry(<<"m", "a", "x", "M", "u", "l", "t", "i", "V", "a", "l", "u", "e", "d", "T", "o", "E", "x", "a", "m", "i", "n", "e">>, Num(0)),
     Entry(<<"m", "a", "x", "M", "u", "l", "t", "i", "V", "a", "l", "u", "e", "d", "T", "o", "M", "a", "t", "c", "h">>, Num(0)),
     Entry(<<"a", "l", "t", "e", "r", "n", "a", "t", "e", "F", "i", "e", "l", "d">>, Str(<<>>)),
     Entry(<<"m", "a", "x", "A", "l", "t", "e", "r", "n", "a", "t", "e", "F", "i", "e", "l", "d", "L", "e", "n", "g", "t", "h">>, Num(0)),
     Entry(<<"f", "o", "r", "m", "a", "t", "t", "e", "r">>, Str(<<>>)),
     Entry(<<"f", "r", "a", "g", "m", "e", "n", "t", "e", "r">>, Str(<<>>)),
     Entry(<<"h", "i", "g", "h", "l", "i", "g", "h", "t", "M", "u", "l", "t", "i", "T", "e", "r", "m">>, Bool(FALSE)),
     Entry(<<"u", "s", "e", "P", "h", "r", "a", "s", "e", "H", "i", "g", "h", "l", "i", "g", "h", "t", "e", "r">>, Bool(FALSE)),
     Entry(<<"r", "e", "g", "e", "x", "S", "l", "o", "p">>, Num(0)),
     Entry(<<"r", "e", "g", "e", "x", "P", "a", "t", "t", "e", "r", "n">>, Str(<<>>)),
     Entry(<<"r", "e", "g", "e", "x", "M", "a", "x", "A", "n", "a", "l", "y", "z", "e", "d", "C", "h", "a", "r", "s">>, Num(0)),
     Entry(<<"p", "r", "e", "s", "e", "r", "v", "e", "M", "u", "l", "t", "i">>, Bool(FALSE)),
     Entry(<<"p", "a", "y", "l", "o", "a", "d", "s">>, Bool(FALSE)) >>

\* HighlightConfig: on, q, fl and the markers given or not, with the other
\* options not given, some given, or all given with falsy values
HighlightConfigs ==
  { Object(<< Entry(<<"o", "n">>, on), Entry(<<"q">>, q), Entry(<<"f", "l">>, fl),
              Entry(<<"s", "i", "m", "p", "l", "e", "P", "r", "e">>, pre), Entry(<<"s", "i", "m", "p", "l", "e", "P", "o", "s", "t">>, post) >> \o rest) :
      on \in {Undefined, Bool(TRUE), Bool(FALSE)},
      q \in {Undefined, Str(<<"a", ":", "1">>), QueryObject},
      fl \in {Undefined, Str(<<"a", ",", "b">>), List(<<Str(<<"a">>), Str(<<"b", " ", "c">>)>>)},
      pre \in {Undefined, Str(<<"<", "b", ">">>), Str(<<>>)},
      post \in {Undefined, Str(<<"<", "/", "b", ">">>)},
      rest \in {<<>>, OptionsGiven1, OptionsGiven2, OptionsGiven3, OptionsGivenFalsy} }

SetHighlighting ==
  /\ New("json")
  /\ \E config \in HighlightConfigs :
       /\ body' = setHighlighting(body, config)
       /\ call' = Call("setHighlighting", config)
  /\ placed' = placed \cup DOMAIN body'["params"]
  /\ Returned
  /\ UNCHANGED <<escVars, normVars, reqVars, cliVars, builder, parameters, added>>

FlatSetHighlighting ==
  /\ New("flat")
  /\ \E config \in HighlightConfigs :
       /\ parameters' = setHighlightingFlat(parameters, config)
       /\ call' = Call("setHighlighting", config)
  /\ Returned
  /\ UNCHANGED <<escVars, normVars, reqVars, cliVars, builder, body, placed, added>>

\* the marker a request made with config is to show: the caller's, and
\* the default where the caller gave none
ShownMarker(config, key, default) ==
  IF Get(config, key) = Undefined THEN default ELSE Get(config, key).s

\* C15: after setHighlighting(config) the finalized request holds the
\* caller's simplePre and simplePost where given (the empty string too),
\* and, with highlighting enabled and no marker given, <em> and </em>: as
\* params['hl.simple.pre'] and params['hl.simple.post'] of the body, and
\* percent-encoded in the one hl.simple.pre and the one hl.simple.post
\* fragment of the query string.
C15_HighlightMarkers ==
  \A i \in DOMAIN finalized :
    (/\ Called("setHighlighting")
     /\ \/ Get(call.arg, <<"o", "n">>) # Bool(FALSE)
        \/ Get(call.arg, <<"s", "i", "m", "p", "l", "e", "P", "r", "e">>) # Undefined /\ Get(call.arg, <<"s", "i", "m", "p", "l", "e", "P", "o", "s", "t">>) # Undefined)
    =>
      LET pre == ShownMarker(call.arg, <<"s", "i", "m", "p", "l", "e", "P", "r", "e">>, <<"<", "e", "m", ">">>)
          post == ShownMarker(call.arg, <<"s", "i", "m", "p", "l", "e", "P", "o", "s", "t">>, <<"<", "/", "e", "m", ">">>)
      IN /\ (builder = "json") =>
              /\ Has(finalized[i].out, "params")
              /\ Has(finalized[i].out["params"], "hl.simple.pre")
              /\ Has(finalized[i].out["params"], "hl.simple.post")
              /\ finalized[i].out["params"]["hl.simple.pre"] = Str(pre)
              /\ finalized[i].out["params"]["hl.simple.post"] = Str(post)
         /\ (builder = "flat") =>
              /\ FragmentsOf(finalized[i].out, <<"h", "l", ".", "s", "i", "m", "p", "l", "e", ".", "p", "r", "e">>)
                   = << <<"h", "l", ".", "s", "i", "m", "p", "l", "e", ".", "p", "r", "e", "=">> \o encodeURIComponent(pre) >>
              /\ FragmentsOf(finalized[i].out, <<"h", "l", ".", "s", "i", "m", "p", "l", "e", ".", "p", "o", "s", "t">>)
                   = << <<"h", "l", ".", "s", "i", "m", "p", "l", "e", ".", "p", "o", "s", "t", "=">> \o encodeURIComponent(post) >>

\* highlighting enabled with no marker given, on the flat builder:
\* hl.simple.pre=%3Cem%3E and hl.simple.post=%3C%2Fem%3E
C15_Witness ==
  /\ builder = "flat"
  /\ Called("setHighlighting")
  /\ call.arg = Object(<< Entry(<<"o", "n">>, Bool(TRUE)) >>)
  /\ finalized # <<>>
  /\ finalized[1].out = <<"h", "l", "=", "t", "r", "u", "e", "&", "h", "l", ".", "s", "i", "m", "p", "l", "e", ".", "p", "r", "e", "=", "%", "3", "C", "e", "m", "%", "3", "E", "&", "h", "l", ".", "s", "i", "m", "p", "l", "e", ".", "p", "o", "s", "t", "=", "%", "3", "C", "%", "2", "F", "e", "m", "%", "3", "E">>

----------------------------------------------------------------------------
(* Collection.create *)

\* Array.isArray(v) ? v.join(',') : v
CommaJoined(v) ==
  IF IsList(v) THEN Str(Join([i \in DOMAIN v.items |-> v.items[i].s], <<",">>)) ELSE v

\* part_001: every field through addParameter, which leaves out undefined
\* and null only
create(p, config) ==
  LET
      p1 == addParameter(p, <<"a", "c", "t", "i", "o", "n">>, Str(<<"C", "R", "E", "A", "T", "E">>), FALSE)
      p2 == addParameter(p1, <<"n", "a", "m", "e">>, Get(config, <<"n", "a", "m", "e">>), TRUE)
      p3 == addParameter(p2, <<"r", "o", "u", "t", "e", "r", ".", "n", "a", "m", "e">>, Get(config, <<"r", "o", "u", "t", "e", "r", "N", "a", "m", "e">>), TRUE)
      p4 == addParameter(p3, <<"n", "u", "m", "S", "h", "a", "r", "d", "s">>, Get(config, <<"n", "u", "m", "S", "h", "a", "r", "d", "s">>), TRUE)
      p5 == addParameter(p4, <<"s", "h", "a", "r", "d", "s">>, CommaJoined(Get(config, <<"s", "h", "a", "r", "d", "s">>)), TRUE)
      p6 == addParameter(p5, <<"r", "e", "p", "l", "i", "c", "a", "t", "i", "o", "n", "F", "a", "c", "t", "o", "r">>, Get(config, <<"r", "e", "p", "l", "i", "c", "a", "t", "i", "o", "n", "F", "a", "c", "t", "o", "r">>), TRUE)
      p7 == addParameter(p6, <<"m", "a", "x", "S", "h", "a", "r", "d", "s", "P", "e", "r", "N", "o", "d", "e">>, Get(config, <<"m", "a", "x", "S", "h", "a", "r", "d", "s", "P", "e", "r", "N", "o", "d", "e">>), TRUE)
      p8 == addParameter(p7, <<"c", "r", "e", "a", "t", "e", "N", "o", "d", "e", "S", "e", "t">>, CommaJoined(Get(config, <<"c", "r", "e", "a", "t", "e", "N", "o", "d", "e", "S", "e", "t">>)), TRUE)
      p9 == addParameter(p8, <<"c", "r", "e", "a", "t", "e", "N", "o", "d", "e", "S", "e", "t", ".", "s", "h", "u", "f", "f", "l", "e">>, Get(config, <<"c", "r", "e", "a", "t", "e", "N", "o", "d", "e", "S", "e", "t", "S", "h", "u", "f", "f", "l", "e">>), TRUE)
      p10 == addParameter(p9, <<"c", "o", "l", "l", "e", "c", "t", "i", "o", "n", ".", "c", "o", "n", "f", "i", "g", "N", "a", "m", "e">>, Get(config, <<"c", "o", "l", "l", "e", "c", "t", "i", "o", "n", "C", "o", "n", "f", "i", "g", "N", "a", "m", "e">>), TRUE)
      p11 == addParameter(p10, <<"r", "o", "u", "t", "e", "r", ".", "f", "i", "e", "l", "d">>, Get(config, <<"r", "o", "u", "t", "e", "r", "F", "i", "e", "l", "d">>), TRUE)
      p12 == addParameter(p11, <<"a", "u", "t", "o", "A", "d", "d", "R", "e", "p", "l", "i", "c", "a", "s">>, Get(config, <<"a", "u", "t", "o", "A", "d", "d", "R", "e", "p", "l", "i", "c", "a", "s">>), TRUE)
      p13 == addParameter(p12, <<"a", "s", "y", "n", "c">>, Get(config, <<"a", "s", "y", "n", "c">>), TRUE)
  IN p13

\* src/collection.ts: the strings under `if (config.x)`, the numbers and
\* booleans under `if (config.x !== undefined)`
createInline(p, config) ==
  LET
      p1 == Append(p, <<"a", "c", "t", "i", "o", "n", "=", "C", "R", "E", "A", "T", "E">>)
      p2 == IF Truthy(Get(config, <<"n", "a", "m", "e">>))
             THEN Append(p1, <<"n", "a", "m", "e", "=">> \o encodeURIComponent(StringOf(Get(config, <<"n", "a", "m", "e">>))))
             ELSE p1
      p3 == IF Truthy(Get(config, <<"r", "o", "u", "t", "e", "r", "N", "a", "m", "e">>))
             THEN Append(p2, <<"r", "o", "u", "t", "e", "r", ".", "n", "a", "m", "e", "=">> \o encodeURIComponent(StringOf(Get(config, <<"r", "o", "u", "t", "e", "r", "N", "a", "m", "e">>))))
             ELSE p2
      p4 == IF Get(config, <<"n", "u", "m", "S", "h", "a", "r", "d", "s">>) # Undefined
             THEN Append(p3, <<"n", "u", "m", "S", "h", "a", "r", "d", "s", "=">> \o StringOf(Get(config, <<"n", "u", "m", "S", "h", "a", "r", "d", "s">>)))
             ELSE p3
      p5 == IF Truthy(Get(config, <<"s", "h", "a", "r", "d", "s">>))
             THEN Append(p4, <<"s", "h", "a", "r", "d", "s", "=">> \o encodeURIComponent(StringOf(CommaJoined(Get(config, <<"s", "h", "a", "r", "d", "s">>)))))
             ELSE p4
      p6 == IF Get(config, <<"r", "e", "p", "l", "i", "c", "a", "t", "i", "o", "n", "F", "a", "c", "t", "o", "r">>) # Undefined
             THEN Append(p5, <<"r", "e", "p", "l", "i", "c", "a", "t", "i", "o", "n", "F", "a", "c", "t", "o", "r", "=">> \o StringOf(Get(config, <<"r", "e", "p", "l", "i", "c", "a", "t", "i", "o", "n", "F", "a", "c", "t", "o", "r">>)))
             ELSE p5
      p7 == IF Get(config, <<"m", "a", "x", "S", "h", "a", "r", "d", "s", "P", "e", "r", "N", "o", "d", "e">>) # Undefined
             THEN Append(p6, <<"m", "a", "x", "S", "h", "a", "r", "d", "s", "P", "e", "r", "N", "o", "d", "e", "=">> \o StringOf(Get(config, <<"m", "a", "x", "S", "h", "a", "r", "d", "s", "P", "e", "r", "N", "o", "d", "e">>)))
             ELSE p6
      p8 == IF Truthy(Get(config, <<"c", "r", "e", "a", "t", "e", "N", "o", "d", "e", "S", "e", "t">>))
             THEN Append(p7, <<"c", "r", "e", "a", "t", "e", "N", "o", "d", "e", "S", "e", "t", "=">> \o encodeURIComponent(StringOf(CommaJoined(Get(config, <<"c", "r", "e", "a", "t", "e", "N", "o", "d", "e", "S", "e", "t">>)))))
             ELSE p7
      p9 == IF Get(config, <<"c", "r", "e", "a", "t", "e", "N", "o", "d", "e", "S", "e", "t", "S", "h", "u", "f", "f", "l", "e">>) # Undefined
             THEN Append(p8, <<"c", "r", "e", "a", "t", "e", "N", "o", "d", "e", "S", "e", "t", ".", "s", "h", "u", "f", "f", "l", "e", "=">> \o StringOf(Get(config, <<"c", "r", "e", "a", "t", "e", "N", "o", "d", "e", "S", "e", "t", "S", "h", "u", "f", "f", "l", "e">>)))
             ELSE p8
      p10 == IF Truthy(Get(config, <<"c", "o", "l", "l", "e", "c", "t", "i", "o", "n", "C", "o", "n", "f", "i", "g", "N", "a", "m", "e">>))
             THEN Append(p9, <<"c", "o", "l", "l", "e", "c", "t", "i", "o", "n", ".", "c", "o", "n", "f", "i", "g", "N", "a", "m", "e", "=">> \o encodeURIComponent(StringOf(Get(config, <<"c", "o", "l", "l", "e", "c", "t", "i", "o", "n", "C", "o", "n", "f", "i", "g", "N", "a", "m", "e">>))))
             ELSE p9
      p11 == IF Truthy(Get(config, <<"r", "o", "u", "t", "e", "r", "F", "i", "e", "l", "d">>))
             THEN Append(p10, <<"r", "o", "u", "t", "e", "r", ".", "f", "i", "e", "l", "d", "=">> \o encodeURIComponent(StringOf(Get(config, <<"r", "o", "u", "t", "e", "r", "F", "i", "e", "l", "d">>))))
             ELSE p10
      p12 == IF Get(config, <<"a", "u", "t", "o", "A", "d", "d", "R", "e", "p", "l", "i", "c", "a", "s">>) # Undefined
             THEN Append(p11, <<"a", "u", "t", "o", "A", "d", "d", "R", "e", "p", "l", "i", "c", "a", "s", "=">> \o StringOf(Get(config, <<"a", "u", "t", "o", "A", "d", "d", "R", "e", "p", "l", "i", "c", "a", "s">>)))
             ELSE p11
      p13 == IF Truthy(Get(config, <<"a", "s", "y", "n", "c">>))
             THEN Append(p12, <<"a", "s", "y", "n", "c", "=">> \o encodeURIComponent(StringOf(Get(config, <<"a", "s", "y", "n", "c">>))))
             ELSE p12
  IN p13

\* if (name) this.parameters.push(`name=${encodeURIComponent(name)}`)
reloadInline(p, name) ==
  LET p1 == Append(p, <<"a", "c", "t", "i", "o", "n", "=", "R", "E", "L", "O", "A", "D">>)
  IN IF Truthy(name) THEN Append(p1, <<"n", "a", "m", "e", "=">> \o encodeURIComponent(StringOf(name))) ELSE p1

createShardInline(p, config) ==
  LET p1 == Append(p, <<"a", "c", "t", "i", "o", "n", "=", "C", "R", "E", "A", "T", "E", "S", "H", "A", "R", "D">>)
      p2 == IF Truthy(config.collection)
            THEN Append(p1, <<"c", "o", "l", "l", "e", "c", "t", "i", "o", "n", "=">> \o encodeURIComponent(StringOf(config.collection)))
            ELSE p1
  IN IF Truthy(config.shard)
     THEN Append(p2, <<"s", "h", "a", "r", "d", "=">> \o encodeURIComponent(StringOf(config.shard)))
     ELSE p2

\* the optional string and boolean fields left to one choice: not given,
\* given, or given with '' and false for values
CreateOptionsGiven ==
  << Entry(<<"r", "o", "u", "t", "e", "r", "N", "a", "m", "e">>, Str(<<"i", "m", "p", "l", "i", "c", "i", "t">>)),
     Entry(<<"m", "a", "x", "S", "h", "a", "r", "d", "s", "P", "e", "r", "N", "o", "d", "e">>, Num(3)),
     Entry(<<"c", "r", "e", "a", "t", "e", "N", "o", "d", "e", "S", "e", "t", "S", "h", "u", "f", "f", "l", "e">>, Bool(TRUE)),
     Entry(<<"c", "o", "l", "l", "e", "c", "t", "i", "o", "n", "C", "o", "n", "f", "i", "g", "N", "a", "m", "e">>, Str(<<"c", "o", "n", "f", " ", "1">>)),
     Entry(<<"r", "o", "u", "t", "e", "r", "F", "i", "e", "l", "d">>, Str(<<"i", "d">>)),
     Entry(<<"a", "s", "y", "n", "c">>, Str(<<"7">>)) >>
CreateOptionsGivenFalsy ==
  << Entry(<<"m", "a", "x", "S", "h", "a", "r", "d", "s", "P", "e", "r", "N", "o", "d", "e">>, Num(0)),
     Entry(<<"c", "r", "e", "a", "t", "e", "N", "o", "d", "e", "S", "e", "t", "S", "h", "u", "f", "f", "l", "e">>, Bool(FALSE)),
     Entry(<<"c", "o", "l", "l", "e", "c", "t", "i", "o", "n", "C", "o", "n", "f", "i", "g", "N", "a", "m", "e">>, Str(<<>>)),
     Entry(<<"r", "o", "u", "t", "e", "r", "F", "i", "e", "l", "d">>, Str(<<>>)),
     Entry(<<"a", "s", "y", "n", "c">>, Str(<<>>)) >>

\* CollectionCreateConfig
CreateConfigs ==
  { Object(<< Entry(<<"n", "a", "m", "e">>, name), Entry(<<"n", "u", "m", "S", "h", "a", "r", "d", "s">>, numShards),
              Entry(<<"s", "h", "a", "r", "d", "s">>, shards), Entry(<<"r", "e", "p", "l", "i", "c", "a", "t", "i", "o", "n", "F", "a", "c", "t", "o", "r">>, replicationFactor),
              Entry(<<"c", "r", "e", "a", "t", "e", "N", "o", "d", "e", "S", "e", "t">>, createNodeSet),
              Entry(<<"a", "u", "t", "o", "A", "d", "d", "R", "e", "p", "l", "i", "c", "a", "s">>, autoAddReplicas) >> \o rest) :
      name \in {Str(<<"c", "o", "l", "l", "1">>), Str(<<"c", " ", "2">>)},
      numShards \in {Undefined, Num(0), Num(2)},
      shards \in {Undefined, Str(<<"s", "1", ",", "s", "2">>), List(<<Str(<<"s", "1">>), Str(<<"s", " ", "2">>)>>), Str(<<>>)},
      replicationFactor \in {Undefined, Num(1)},
      createNodeSet \in {Undefined, Str(<<"E", "M", "P", "T", "Y">>), List(<<Str(<<"n", "1", ":", "8", "9", "8", "3", "_", "s", "o", "l", "r">>), Str(<<"n", "2", ":", "8", "9", "8", "3", "_", "s", "o", "l", "r">>)>>)},
      autoAddReplicas \in {Undefined, Bool(FALSE)},
      rest \in {<<>>, CreateOptionsGiven, CreateOptionsGivenFalsy} }

Create ==
  /\ New("admin")
  /\ \E config \in CreateConfigs :
       /\ parameters' = create(parameters, config)
       /\ call' = Call("create", config)
  /\ Returned
  /\ UNCHANGED <<escVars, normVars, reqVars, cliVars, builder, body, placed, added>>

CreateInline ==
  /\ New("inline")
  /\ \E config \in CreateConfigs :
       /\ parameters' = createInline(parameters, config)
       /\ call' = Call("create", config)
  /\ Returned
  /\ UNCHANGED <<escVars, normVars, reqVars, cliVars, builder, body, placed, added>>

ReloadInline ==
  /\ Open("inline")
  /\ \E name \in CollectionNames : parameters' = reloadInline(parameters, name)
  /\ Returned
  /\ UNCHANGED <<escVars, normVars, reqVars, cliVars, call, builder, body, placed, added>>

CreateShardInline ==
  /\ Open("inline")
  /\ \E c \in CollectionNames :
       parameters' = createShardInline(parameters, [collection |-> c, shard |-> Str(<<"s", "1">>)])
  /\ Returned
  /\ UNCHANGED <<escVars, normVars, reqVars, cliVars, call, builder, body, placed, added>>

\* the fields of CollectionCreateConfig with the parameter of each
CreateFields ==
  <<
     [key |-> <<"n", "a", "m", "e">>, name |-> <<"n", "a", "m", "e">>],
     [key |-> <<"r", "o", "u", "t", "e", "r", "N", "a", "m", "e">>, name |-> <<"r", "o", "u", "t", "e", "r", ".", "n", "a", "m", "e">>],
     [key |-> <<"n", "u", "m", "S", "h", "a", "r", "d", "s">>, name |-> <<"n", "u", "m", "S", "h", "a", "r", "d", "s">>],
     [key |-> <<"s", "h", "a", "r", "d", "s">>, name |-> <<"s", "h", "a", "r", "d", "s">>],
     [key |-> <<"r", "e", "p", "l", "i", "c", "a", "t", "i", "o", "n", "F", "a", "c", "t", "o", "r">>, name |-> <<"r", "e", "p", "l", "i", "c", "a", "t", "i", "o", "n", "F", "a", "c", "t", "o", "r">>],
     [key |-> <<"m", "a", "x", "S", "h", "a", "r", "d", "s", "P", "e", "r", "N", "o", "d", "e">>, name |-> <<"m", "a", "x", "S", "h", "a", "r", "d", "s", "P", "e", "r", "N", "o", "d", "e">>],
     [key |-> <<"c", "r", "e", "a", "t", "e", "N", "o", "d", "e", "S", "e", "t">>, name |-> <<"c", "r", "e", "a", "t", "e", "N", "o", "d", "e", "S", "e", "t">>],
     [key |-> <<"c", "r", "e", "a", "t", "e", "N", "o", "d", "e", "S", "e", "t", "S", "h", "u", "f", "f", "l", "e">>, name |-> <<"c", "r", "e", "a", "t", "e", "N", "o", "d", "e", "S", "e", "t", ".", "s", "h", "u", "f", "f", "l", "e">>],
     [key |-> <<"c", "o", "l", "l", "e", "c", "t", "i", "o", "n", "C", "o", "n", "f", "i", "g", "N", "a", "m", "e">>, name |-> <<"c", "o", "l", "l", "e", "c", "t", "i", "o", "n", ".", "c", "o", "n", "f", "i", "g", "N", "a", "m", "e">>],
     [key |-> <<"r", "o", "u", "t", "e", "r", "F", "i", "e", "l", "d">>, name |-> <<"r", "o", "u", "t", "e", "r", ".", "f", "i", "e", "l", "d">>],
     [key |-> <<"a", "u", "t", "o", "A", "d", "d", "R", "e", "p", "l", "i", "c", "a", "s">>, name |-> <<"a", "u", "t", "o", "A", "d", "d", "R", "e", "p", "l", "i", "c", "a", "s">>],
     [key |-> <<"a", "s", "y", "n", "c">>, name |-> <<"a", "s", "y", "n", "c">>] >>

\* the value of a field as the caller gave it, a list joined with commas
GivenText(v) ==
  IF IsList(v) THEN Join([i \in DOMAIN v.items |-> v.items[i].s], <<",">>) ELSE StringOf(v)

\* C16: after create(config) the finalized string starts with action=CREATE
\* and holds, for every field of the config that the caller gave, exactly
\* one fragment name=value with the value percent-encoded (a list joined
\* with commas first), for every field left out no fragment, and nothing
\* else.
C16_CreateFragments ==
  \A i \in DOMAIN finalized :
    Called("create") =>
      LET fragments == Split(finalized[i].out, "&")
          given == {f \in DOMAIN CreateFields : Get(call.arg, CreateFields[f].key) # Undefined}
      IN /\ fragments[1] = <<"a", "c", "t", "i", "o", "n", "=", "C", "R", "E", "A", "T", "E">>
         /\ Len(fragments) = 1 + Cardinality(given)
         /\ \A f \in DOMAIN CreateFields :
              FragmentsOf(finalized[i].out, CreateFields[f].name)
                = IF f \in given
                  THEN << CreateFields[f].name \o <<"=">>
                          \o encodeURIComponent(GivenText(Get(call.arg, CreateFields[f].key))) >>
                  ELSE <<>>

----------------------------------------------------------------------------
(* Admin Action builder *)

\* the two Collection classes
Collections == {"admin", "inline"}

\* C17: whatever Collection operations were called, the finalized
\* parameter string holds exactly one action= fragment.
C17_OneAction ==
  \A i \in DOMAIN finalized :
    builder \in Collections => Len(FragmentsOf(finalized[i].out, <<"a", "c", "t", "i", "o", "n">>)) = 1

\* the fragments of a finalized parameter string
Fragments(queryString) == IF queryString = <<>> THEN <<>> ELSE Split(queryString, "&")

IsPrefix(s, t) == Len(s) <= Len(t) /\ SubSeq(t, 1, Len(s)) = s

\* one step of a Collection, as C18 has it
StaysOpen ==
  builder \in Collections =>
       /\ (calls' = calls /\ finalized' # finalized) =>
            /\ parameters' = parameters
            /\ finalized'[Len(finalized')].out = Join(parameters, <<"&">>)
            /\ earlier.t = "read" =>
                 /\ IsPrefix(Fragments(earlier.out), Fragments(finalized'[Len(finalized')].out))
                 /\ Len(Fragments(earlier.out)) < Len(Fragments(finalized'[Len(finalized')].out))
       /\ (calls' = calls + 1) =>
            /\ ~raised'
            /\ IsPrefix(parameters, parameters')
            /\ Len(parameters) < Len(parameters')

\* C18: on a Collection every step keeps the builder open for appends:
\* toQueryString leaves the accumulated parameters as they are and returns
\* them joined; an operation is accepted whether or not toQueryString was
\* called before it, and puts its fragments after the ones accumulated;
\* and the toQueryString that follows an operation called after a
\* toQueryString returns the fragments of the earlier one first, in their
\* order, and then those of the operation.
C18_OpenForAppends == [][StaysOpen]_vars

\* reload was called after a toQueryString that returned
\* action=CREATESHARD&collection=c1&shard=s1, and the toQueryString after
\* it returned those three fragments and then the two of reload
C18_Witness ==
  /\ builder = "admin"
  /\ earlier.t = "read"
  /\ earlier.out = <<"a", "c", "t", "i", "o", "n", "=", "C", "R", "E", "A", "T", "E", "S", "H", "A", "R", "D", "&", "c", "o", "l", "l", "e", "c", "t", "i", "o", "n", "=", "c", "1", "&", "s", "h", "a", "r", "d", "=", "s", "1">>
  /\ finalized # <<>>
  /\ finalized[1].out = <<"a", "c", "t", "i", "o", "n", "=", "C", "R", "E", "A", "T", "E", "S", "H", "A", "R", "D", "&", "c", "o", "l", "l", "e", "c", "t", "i", "o", "n", "=", "c", "1", "&", "s", "h", "a", "r", "d", "=", "s", "1", "&", "a", "c", "t", "i", "o", "n", "=", "R", "E", "L", "O", "A", "D", "&", "n", "a", "m", "e", "=", "c", "%", "2", "0", "2">>

----------------------------------------------------------------------------
(* executeRequest *)

\* the longest metadata list of an error body
MaxMetadata == 2

\* the character of s at i, "" past its end
At(s, i) == IF i \in 1..Len(s) THEN s[i] ELSE ""
JsonDigits == {"0", "1", "2", "3", "4", "5", "6", "7", "8", "9"}

RECURSIVE JsonNumber(_)
\* the number written with the digits ds
JsonNumber(ds) ==
  IF ds = <<>> THEN 0
  ELSE 10 * JsonNumber(SubSeq(ds, 1, Len(ds) - 1))
       + (CHOOSE d \in 0..9 : Digit(d) = ds[Len(ds)])

SyntaxError == [ok |-> FALSE]
Parsed(v, next) == [ok |-> TRUE, v |-> v, next |-> next]

RECURSIVE ParseValue(_, _)
RECURSIVE ParseMembers(_, _, _)
RECURSIVE ParseElements(_, _, _)
\* JSON.parse, the value that starts at i: an object, an array, a string
\* without escapes, a number written with digits only, true, false or
\* null, with no white space between the tokens
ParseValue(s, i) ==
  LET c == At(s, i)
  IN CASE c = "{" ->
            IF At(s, i + 1) = "}" THEN Parsed([t |-> "obj", e |-> <<>>], i + 2)
            ELSE ParseMembers(s, i + 1, <<>>)
       [] c = "[" ->
            IF At(s, i + 1) = "]" THEN Parsed([t |-> "list", items |-> <<>>], i + 2)
            ELSE ParseElements(s, i + 1, <<>>)
       [] c = "\"" ->
            IF \E j \in (i + 1)..Len(s) : s[j] = "\""
            THEN LET j == CHOOSE j \in (i + 1)..Len(s) :
                            s[j] = "\"" /\ \A k \in (i + 1)..(j - 1) : s[k] # "\""
                 IN Parsed(Str(SubSeq(s, i + 1, j - 1)), j + 1)
            ELSE SyntaxError
       [] c \in JsonDigits ->
            LET j == CHOOSE j \in (i + 1)..(Len(s) + 1) :
                       At(s, j) \notin JsonDigits /\ \A k \in i..(j - 1) : s[k] \in JsonDigits
            IN IF c = "0" /\ j > i + 1 THEN SyntaxError
               ELSE Parsed(Num(JsonNumber(SubSeq(s, i, j - 1))), j)
       [] c = "n" ->
            IF SubSeq(s, i, i + 3) = <<"n", "u", "l", "l">> THEN Parsed(Null, i + 4) ELSE SyntaxError
       [] c = "t" ->
            IF SubSeq(s, i, i + 3) = <<"t", "r", "u", "e">> THEN Parsed(Bool(TRUE), i + 4) ELSE SyntaxError
       [] c = "f" ->
            IF SubSeq(s, i, i + 4) = <<"f", "a", "l", "s", "e">> THEN Parsed(Bool(FALSE), i + 5) ELSE SyntaxError
       [] OTHER -> SyntaxError

\* the members of an object from i on, after those of acc
ParseMembers(s, i, acc) ==
  LET key == IF At(s, i) = "\"" THEN ParseValue(s, i) ELSE SyntaxError
  IN IF ~key.ok \/ At(s, key.next) # ":" THEN SyntaxError
     ELSE LET value == ParseValue(s, key.next + 1)
          IN IF ~value.ok THEN SyntaxError
             ELSE LET e == Append(acc, [k |-> key.v.s, v |-> value.v])
                  IN CASE At(s, value.next) = "," -> ParseMembers(s, value.next + 1, e)
                       [] At(s, value.next) = "}" ->
                            Parsed([t |-> "obj", e |-> e], value.next + 1)
                       [] OTHER -> SyntaxError

\* the elements of an array from i on, after those of acc
ParseElements(s, i, acc) ==
  LET value == ParseValue(s, i)
  IN IF ~value.ok THEN SyntaxError
     ELSE LET items == Append(acc, value.v)
          IN CASE At(s, value.next) = "," -> ParseElements(s, value.next + 1, items)
               [] At(s, value.next) = "]" ->
                    Parsed([t |-> "list", items |-> items], value.next + 1)
               [] OTHER -> SyntaxError

\* getJSONHandler(this.config.bigint).parse(responseText): the value, or
\* SyntaxError where the text is not one JSON value
JSONParse(responseText) ==
  LET r == ParseValue(responseText, 1)
  IN IF r.ok /\ r.next = Len(responseText) + 1 THEN r ELSE SyntaxError

\* v.key where v is not null or undefined: the member of an object,
\* undefined on anything else
Member(v, key) == IF v.t = "obj" THEN Get(v, key) ELSE Undefined

Rejected(error) == [t |-> "rejected", error |-> error]
Resolved(value) == [t |-> "resolved", value |-> value]

\* what String(v) gives in a template literal, for the values an error
\* body holds under code and msg
TemplateText(v) ==
  CASE v.t \in {"str", "num", "bool", "undef"} -> StringOf(v)
    [] v.t = "null" -> <<"n", "u", "l", "l">>
    [] v.t = "obj" -> <<"[", "o", "b", "j", "e", "c", "t", " ", "O", "b", "j", "e", "c", "t", "]">>
    [] v.t = "list" -> Join([i \in DOMAIN v.items |-> StringOf(v.items[i])], <<",">>)

\* types.ts: new SolrError(httpStatusCode, errorBody)
SolrError(httpStatusCode, errorBody) ==
  [name |-> "SolrError",
   message |-> <<"S", "o", "l", "r", " ", "r", "e", "q", "u", "e", "s", "t", " ", "f", "a", "i", "l", "e", "d", " ", "w", "i", "t", "h", " ", "H", "T", "T", "P", " ", "s", "t", "a", "t", "u", "s", " ">> \o NumberToString(httpStatusCode)
               \o <<" ", "a", "n", "d", " ", "S", "o", "l", "r", " ", "c", "o", "d", "e", " ">> \o TemplateText(Member(errorBody, <<"c", "o", "d", "e">>))
               \o <<":", " ">> \o TemplateText(Member(errorBody, <<"m", "s", "g">>)),
   httpStatusCode |-> httpStatusCode,
   solrCode |-> Member(errorBody, <<"c", "o", "d", "e">>),
   metadata |-> Member(errorBody, <<"m", "e", "t", "a", "d", "a", "t", "a">>)]

\* { code: statusCode, msg: `HTTP error ...`, metadata: [] }
fallbackErrorBody(statusCode) ==
  Object(<< Entry(<<"c", "o", "d", "e">>, Num(statusCode)),
            Entry(<<"m", "s", "g">>, Str(<<"H", "T", "T", "P", " ", "e", "r", "r", "o", "r", " ">> \o NumberToString(statusCode)
                             \o <<".", " ", "N", "o", " ", "e", "r", "r", "o", "r", " ", "d", "e", "t", "a", "i", "l", "s", " ", "p", "r", "o", "v", "i", "d", "e", "d", " ", "i", "n", " ", "r", "e", "s", "p", "o", "n", "s", "e", " ", "b", "o", "d", "y", ".">>)),
            Entry(<<"m", "e", "t", "a", "d", "a", "t", "a">>, List(<<>>)) >>)

\* part_005: executeRequest from the response on. An exception of parse,
\* or of reading .error of null, rejects the promise.
executeRequest(statusCode, responseText) ==
  LET jsonResponse == JSONParse(responseText)
  IN IF ~jsonResponse.ok THEN Rejected([name |-> "SyntaxError"])
     ELSE IF jsonResponse.v.t = "null" THEN Rejected([name |-> "TypeError"])
     ELSE IF statusCode >= 400 \/ Truthy(Member(jsonResponse.v, <<"e", "r", "r", "o", "r">>))
          THEN IF Truthy(Member(jsonResponse.v, <<"e", "r", "r", "o", "r">>))
               THEN Rejected(SolrError(statusCode, Member(jsonResponse.v, <<"e", "r", "r", "o", "r">>)))
               ELSE Rejected(SolrError(statusCode, fallbackErrorBody(statusCode)))
          ELSE Resolved(jsonResponse.v)

StatusCodes == {200, 204, 302, 399, 400, 404, 500, 502}

RECURSIVE MetadataText(_)
\* "k1","v1",... : n strings of a metadata list, as JSON
MetadataText(n) ==
  IF n = 0 THEN <<>>
  ELSE (IF n = 1 THEN <<>> ELSE MetadataText(n - 1) \o <<",">>)
       \o <<"\"", "m">> \o NumberToString(n) \o <<"\"">>

\* an error body of the server with a metadata list of n strings
ErrorText(n) ==
  <<"{", "\"", "r", "e", "s", "p", "o", "n", "s", "e", "H", "e", "a", "d", "e", "r", "\"", ":", "{", "\"", "s", "t", "a", "t", "u", "s", "\"", ":", "4", "0", "0", "}", ",", "\"", "e", "r", "r", "o", "r", "\"", ":", "{", "\"", "m", "e", "t", "a", "d", "a", "t", "a", "\"", ":", "[">> \o MetadataText(n)
  \o <<"]", ",", "\"", "m", "s", "g", "\"", ":", "\"", "u", "n", "d", "e", "f", "i", "n", "e", "d", " ", "f", "i", "e", "l", "d", " ", "x", "\"", ",", "\"", "c", "o", "d", "e", "\"", ":", "4", "0", "0", "}", "}">>

\* the body texts: responses of the server without and with an error
\* member, an error member without metadata, an error member that is
\* null, an error member that is a string, JSON that is no object, and
\* text that is no JSON (an HTML page of a proxy, an empty body)
ResponseTexts ==
  { <<"{", "\"", "r", "e", "s", "p", "o", "n", "s", "e", "H", "e", "a", "d", "e", "r", "\"", ":", "{", "\"", "s", "t", "a", "t", "u", "s", "\"", ":", "0", "}", ",", "\"", "r", "e", "s", "p", "o", "n", "s", "e", "\"", ":", "{", "\"", "n", "u", "m", "F", "o", "u", "n", "d", "\"", ":", "0", ",", "\"", "d", "o", "c", "s", "\"", ":", "[", "]", "}", "}">>,
    <<"{", "\"", "r", "e", "s", "p", "o", "n", "s", "e", "H", "e", "a", "d", "e", "r", "\"", ":", "{", "\"", "s", "t", "a", "t", "u", "s", "\"", ":", "0", "}", ",", "\"", "a", "d", "d", "s", "\"", ":", "[", "\"", "1", "\"", ",", "2", "]", "}">>,
    <<"{", "\"", "e", "r", "r", "o", "r", "\"", ":", "{", "\"", "m", "s", "g", "\"", ":", "\"", "n", "o", "t", " ", "f", "o", "u", "n", "d", "\"", ",", "\"", "c", "o", "d", "e", "\"", ":", "4", "0", "4", "}", "}">>,
    <<"{", "\"", "e", "r", "r", "o", "r", "\"", ":", "n", "u", "l", "l", "}">>,
    <<"{", "\"", "e", "r", "r", "o", "r", "\"", ":", "\"", "b", "o", "o", "m", "\"", "}">>,
    <<"{", "}">>,
    <<"n", "u", "l", "l">>,
    <<"5">>,
    <<"[", "]">>,
    <<"<", "h", "t", "m", "l", ">", "B", "a", "d", " ", "G", "a", "t", "e", "w", "a", "y", "<", "/", "h", "t", "m", "l", ">">>,
    <<>> }
  \cup { ErrorText(n) : n \in 0..MaxMetadata }

InitRequest ==
  /\ EscIdle
  /\ NormIdle
  /\ BldIdle
  /\ CliIdle
  /\ dispatch = "ready"
  /\ response = NotCalled
  /\ outcome = NotCalled

\* await this.httpClient.request({ path, ...requestOptions })
Request ==
  /\ dispatch = "ready"
  /\ dispatch' = "awaiting"
  /\ UNCHANGED <<escVars, normVars, bldVars, response, outcome, cliVars>>

\* the response arrives and await response.body.text() gives its text
Respond ==
  /\ dispatch = "awaiting"
  /\ \E statusCode \in StatusCodes, responseText \in ResponseTexts :
       response' = [statusCode |-> statusCode, responseText |-> responseText]
  /\ dispatch' = "received"
  /\ UNCHANGED <<escVars, normVars, bldVars, outcome, cliVars>>

\* the rest of executeRequest: parse, then throw or return
Settle ==
  /\ dispatch = "received"
  /\ outcome' = executeRequest(response.statusCode, response.responseText)
  /\ dispatch' = "settled"
  /\ UNCHANGED <<escVars, normVars, bldVars, response, cliVars>>

NextRequest ==
  \/ Request
  \/ Respond
  \/ Settle

SpecRequest == InitRequest /\ [][NextRequest]_vars

IsSolrError(o) == o.t = "rejected" /\ o.error.name = "SolrError"

\* the `error` member of the body of the response, Undefined where the
\* body has none (it is no JSON, or no object, or an object without one)
ErrorMember(responseText) ==
  IF JSONParse(responseText).ok THEN Member(JSONParse(responseText).v, <<"e", "r", "r", "o", "r">>)
  ELSE Undefined

\* C19: a settled request is rejected with a SolrError exactly when the
\* status is 400 or above or the body has an `error` member (one that
\* is not null, false, 0 or ''); the error
\* carries the status of the response and, where the body has an `error`
\* member, its code, its msg (in the message) and its metadata; in every
\* other case where the body parses, the request is resolved with the
\* parsed body.
C19_RejectsWithSolrError ==
  dispatch = "settled" =>
    LET error == ErrorMember(response.responseText)
        failed == response.statusCode >= 400 \/ Truthy(error)
    IN /\ IsSolrError(outcome) <=> failed
       /\ IsSolrError(outcome) =>
            /\ outcome.error.httpStatusCode = response.statusCode
            /\ Truthy(error) =>
                 /\ outcome.error.solrCode = Member(error, <<"c", "o", "d", "e">>)
                 /\ outcome.error.metadata = Member(error, <<"m", "e", "t", "a", "d", "a", "t", "a">>)
                 /\ outcome.error.message
                      = <<"S", "o", "l", "r", " ", "r", "e", "q", "u", "e", "s", "t", " ", "f", "a", "i", "l", "e", "d", " ", "w", "i", "t", "h", " ", "H", "T", "T", "P", " ", "s", "t", "a", "t", "u", "s", " ">>
                        \o NumberToString(response.statusCode)
                        \o <<" ", "a", "n", "d", " ", "S", "o", "l", "r", " ", "c", "o", "d", "e", " ">> \o TemplateText(Member(error, <<"c", "o", "d", "e">>))
                        \o <<":", " ">> \o TemplateText(Member(error, <<"m", "s", "g">>))
       /\ (~failed /\ JSONParse(response.responseText).ok) =>
            outcome = Resolved(JSONParse(response.responseText).v)

\* C20: a settled request whose response has a status of 400 or above and
\* a body without an `error` member, whatever its text, is rejected with a
\* SolrError whose httpStatusCode and code are the status and whose
\* metadata list is empty.
C20_FallbackError ==
  (/\ dispatch = "settled"
   /\ response.statusCode >= 400
   /\ ~Truthy(ErrorMember(response.responseText)))
  =>
    /\ IsSolrError(outcome)
    /\ outcome.error.httpStatusCode = response.statusCode
    /\ outcome.error.solrCode = Num(response.statusCode)
    /\ outcome.error.metadata = List(<<>>)

----------------------------------------------------------------------------
(* The flat Query: the setters of one text value *)

\* this.parameters.push(`fl=${encodeURIComponent(fieldString)}`)
setResponseFieldsFlat(p, fields) ==
  LET fieldString == IF IsList(fields)
                     THEN Join([i \in DOMAIN fields.items |-> fields.items[i].s], <<",">>)
                     ELSE fields.s
  IN Append(p, <<"f", "l", "=">> \o encodeURIComponent(fieldString))

\* the texts a caller gives: plain, with a blank, with & and =, with a
\* percent sign, with a comma
Texts == { <<"t", "i", "t", "l", "e">>, <<"a", " ", "b">>, <<"a", "&", "b", "=", "c">>, <<"5", "0", "%">>, <<"a", ",", "b">> }

FlatSetQueryText ==
  /\ New("flat")
  /\ \E t \in Texts :
       /\ parameters' = setQueryFlat(parameters, Str(t), Undefined)
       /\ call' = Call("setQuery", Str(t))
  /\ Returned
  /\ UNCHANGED <<escVars, normVars, reqVars, cliVars, builder, body, placed, added>>

FlatSetParserTypeText ==
  /\ New("flat")
  /\ \E t \in Texts :
       /\ parameters' = setParserTypeFlat(parameters, Str(t))
       /\ call' = Call("setParserType", Str(t))
  /\ Returned
  /\ UNCHANGED <<escVars, normVars, reqVars, cliVars, builder, body, placed, added>>

FlatSetResponseFields ==
  /\ New("flat")
  /\ \E fields \in {Str(t) : t \in Texts} \cup {List(<<Str(<<"i", "d">>), Str(<<"a", " ", "b">>)>>)} :
       /\ parameters' = setResponseFieldsFlat(parameters, fields)
       /\ call' = Call("setResponseFields", fields)
  /\ Returned
  /\ UNCHANGED <<escVars, normVars, reqVars, cliVars, builder, body, placed, added>>

HexDigits == <<"0", "1", "2", "3", "4", "5", "6", "7", "8", "9", "A", "B", "C", "D", "E", "F">>
IsHexDigit(c) == \E n \in DOMAIN HexDigits : HexDigits[n] = c
HexValue(c) == (CHOOSE n \in DOMAIN HexDigits : HexDigits[n] = c) - 1

\* decodeURIComponent of ASCII text: every %XY gives the character of code
\* XY; Thrown (URIError) where a % is not followed by two hex digits
decodeURIComponent(s) ==
  LET escape(i) == s[i] = "%"
      wellFormed(i) == i + 2 <= Len(s) /\ IsHexDigit(s[i + 1]) /\ IsHexDigit(s[i + 2])
      inEscape(i) == (i > 1 /\ escape(i - 1)) \/ (i > 2 /\ escape(i - 2))
      piece(i) == IF inEscape(i) THEN <<>>
                  ELSE IF escape(i)
                  THEN <<Ascii[16 * HexValue(s[i + 1]) + HexValue(s[i + 2]) - 31]>>
                  ELSE <<s[i]>>
  IN IF \E i \in DOMAIN s : escape(i) /\ ~inEscape(i) /\ ~wellFormed(i) THEN Thrown
     ELSE Str(Join([i \in DOMAIN s |-> piece(i)], <<>>))

\* the setters of one text value: the call, the text in its argument (not
\* a text: undefined) and the key of the fragment
TextSetters ==
  << [op |-> "setQuery", key |-> <<"q">>],
     [op |-> "setParserType", key |-> <<"d", "e", "f", "T", "y", "p", "e">>],
     [op |-> "setResponseFields", key |-> <<"f", "l">>],
     [op |-> "setHighlighting", key |-> <<"h", "l", ".", "f", "l">>] >>
TextGiven(c) ==
  IF c.op = "setHighlighting" THEN Get(c.arg, <<"f", "l">>) ELSE c.arg

\* C23: in flat mode the text given to a setter of one text value (setQuery
\* with a string, setParserType, setResponseFields with a string, the
\* string fl of setHighlighting) is percent-encoded exactly once in its
\* key=value fragment: decoding the fragment's value once gives the text.
C23_EncodedOnce ==
  \A i \in DOMAIN finalized : \A n \in DOMAIN TextSetters :
    (builder = "flat" /\ Called(TextSetters[n].op)
       /\ IsString(TextGiven(call)) /\ TextGiven(call).s # <<>>)
    =>
      LET fragments == FragmentsOf(finalized[i].out, TextSetters[n].key)
      IN /\ Len(fragments) = 1
         /\ decodeURIComponent(SubSeq(fragments[1], Len(TextSetters[n].key) + 2,
                                      Len(fragments[1])))
              = TextGiven(call)

----------------------------------------------------------------------------
(* setGrouping, setMoreLikeThis, setTerms *)

\* toArray(value): the array given, or the value in an array of one
toArray(value) ==
  IF IsList(value) THEN value
  ELSE IF value.t \in {"null", "undef"} THEN List(<<Str(<<>>)>>)
  ELSE List(<<value>>)

\* the options of setGrouping behind group.query, in the order of the code
GroupOptions ==
  <<
     [key |-> <<"l", "i", "m", "i", "t">>,
      name |-> "group.limit", chars |-> <<"g", "r", "o", "u", "p", ".", "l", "i", "m", "i", "t">>,
      test |-> "defined", encode |-> FALSE],
     [key |-> <<"o", "f", "f", "s", "e", "t">>,
      name |-> "group.offset", chars |-> <<"g", "r", "o", "u", "p", ".", "o", "f", "f", "s", "e", "t">>,
      test |-> "defined", encode |-> FALSE],
     [key |-> <<"s", "o", "r", "t">>,
      name |-> "group.sort", chars |-> <<"g", "r", "o", "u", "p", ".", "s", "o", "r", "t">>,
      test |-> "truthy", encode |-> TRUE],
     [key |-> <<"f", "o", "r", "m", "a", "t">>,
      name |-> "group.format", chars |-> <<"g", "r", "o", "u", "p", ".", "f", "o", "r", "m", "a", "t">>,
      test |-> "truthy", encode |-> TRUE],
     [key |-> <<"m", "a", "i", "n">>,
      name |-> "group.main", chars |-> <<"g", "r", "o", "u", "p", ".", "m", "a", "i", "n">>,
      test |-> "defined", encode |-> FALSE],
     [key |-> <<"n", "g", "r", "o", "u", "p", "s">>,
      name |-> "group.ngroups", chars |-> <<"g", "r", "o", "u", "p", ".", "n", "g", "r", "o", "u", "p", "s">>,
      test |-> "defined", encode |-> FALSE],
     [key |-> <<"t", "r", "u", "n", "c", "a", "t", "e">>,
      name |-> "group.truncate", chars |-> <<"g", "r", "o", "u", "p", ".", "t", "r", "u", "n", "c", "a", "t", "e">>,
      test |-> "defined", encode |-> FALSE],
     [key |-> <<"c", "a", "c", "h", "e">>,
      name |-> "group.cache.percent", chars |-> <<"g", "r", "o", "u", "p", ".", "c", "a", "c", "h", "e", ".", "p", "e", "r", "c", "e", "n", "t">>,
      test |-> "defined", encode |-> FALSE] >>

\* the options of setMoreLikeThis between mlt.fl and mlt.qf
MltOptions ==
  <<
     [key |-> <<"c", "o", "u", "n", "t">>,
      name |-> "mlt.count", chars |-> <<"m", "l", "t", ".", "c", "o", "u", "n", "t">>,
      test |-> "defined", encode |-> FALSE],
     [key |-> <<"m", "i", "n", "t", "f">>,
      name |-> "mlt.mintf", chars |-> <<"m", "l", "t", ".", "m", "i", "n", "t", "f">>,
      test |-> "defined", encode |-> FALSE],
     [key |-> <<"m", "i", "n", "d", "f">>,
      name |-> "mlt.mindf", chars |-> <<"m", "l", "t", ".", "m", "i", "n", "d", "f">>,
      test |-> "defined", encode |-> FALSE],
     [key |-> <<"m", "i", "n", "w", "l">>,
      name |-> "mlt.minwl", chars |-> <<"m", "l", "t", ".", "m", "i", "n", "w", "l">>,
      test |-> "defined", encode |-> FALSE],
     [key |-> <<"m", "a", "x", "w", "l">>,
      name |-> "mlt.maxwl", chars |-> <<"m", "l", "t", ".", "m", "a", "x", "w", "l">>,
      test |-> "defined", encode |-> FALSE],
     [key |-> <<"m", "a", "x", "q", "t">>,
      name |-> "mlt.maxqt", chars |-> <<"m", "l", "t", ".", "m", "a", "x", "q", "t">>,
      test |-> "defined", encode |-> FALSE],
     [key |-> <<"m", "a", "x", "n", "t", "p">>,
      name |-> "mlt.maxntp", chars |-> <<"m", "l", "t", ".", "m", "a", "x", "n", "t", "p">>,
      test |-> "defined", encode |-> FALSE],
     [key |-> <<"b", "o", "o", "s", "t">>,
      name |-> "mlt.boost", chars |-> <<"m", "l", "t", ".", "b", "o", "o", "s", "t">>,
      test |-> "defined", encode |-> FALSE] >>

\* the options of setTerms behind terms, in the order of the code
TermsOptions ==
  <<
     [key |-> <<"f", "l">>,
      name |-> "terms.fl", chars |-> <<"t", "e", "r", "m", "s", ".", "f", "l">>,
      test |-> "truthy", encode |-> TRUE],
     [key |-> <<"l", "o", "w", "e", "r">>,
      name |-> "terms.lower", chars |-> <<"t", "e", "r", "m", "s", ".", "l", "o", "w", "e", "r">>,
      test |-> "truthy", encode |-> TRUE],
     [key |-> <<"l", "o", "w", "e", "r", "I", "n", "c", "l">>,
      name |-> "terms.lower.incl", chars |-> <<"t", "e", "r", "m", "s", ".", "l", "o", "w", "e", "r", ".", "i", "n", "c", "l">>,
      test |-> "defined", encode |-> FALSE],
     [key |-> <<"m", "i", "n", "c", "o", "u", "n", "t">>,
      name |-> "terms.mincount", chars |-> <<"t", "e", "r", "m", "s", ".", "m", "i", "n", "c", "o", "u", "n", "t">>,
      test |-> "truthy", encode |-> FALSE],
     [key |-> <<"m", "a", "x", "c", "o", "u", "n", "t">>,
      name |-> "terms.maxcount", chars |-> <<"t", "e", "r", "m", "s", ".", "m", "a", "x", "c", "o", "u", "n", "t">>,
      test |-> "truthy", encode |-> FALSE],
     [key |-> <<"p", "r", "e", "f", "i", "x">>,
      name |-> "terms.prefix", chars |-> <<"t", "e", "r", "m", "s", ".", "p", "r", "e", "f", "i", "x">>,
      test |-> "truthy", encode |-> TRUE],
     [key |-> <<"r", "e", "g", "e", "x">>,
      name |-> "terms.regex", chars |-> <<"t", "e", "r", "m", "s", ".", "r", "e", "g", "e", "x">>,
      test |-> "truthy", encode |-> TRUE],
     [key |-> <<"r", "e", "g", "e", "x", "F", "l", "a", "g">>,
      name |-> "terms.regex.flag", chars |-> <<"t", "e", "r", "m", "s", ".", "r", "e", "g", "e", "x", ".", "f", "l", "a", "g">>,
      test |-> "truthy", encode |-> TRUE],
     [key |-> <<"l", "i", "m", "i", "t">>,
      name |-> "terms.limit", chars |-> <<"t", "e", "r", "m", "s", ".", "l", "i", "m", "i", "t">>,
      test |-> "truthy", encode |-> FALSE],
     [key |-> <<"u", "p", "p", "e", "r">>,
      name |-> "terms.upper", chars |-> <<"t", "e", "r", "m", "s", ".", "u", "p", "p", "e", "r">>,
      test |-> "truthy", encode |-> TRUE],
     [key |-> <<"u", "p", "p", "e", "r", "I", "n", "c", "l">>,
      name |-> "terms.upper.incl", chars |-> <<"t", "e", "r", "m", "s", ".", "u", "p", "p", "e", "r", ".", "i", "n", "c", "l">>,
      test |-> "defined", encode |-> FALSE],
     [key |-> <<"r", "a", "w">>,
      name |-> "terms.raw", chars |-> <<"t", "e", "r", "m", "s", ".", "r", "a", "w">>,
      test |-> "defined", encode |-> FALSE],
     [key |-> <<"s", "o", "r", "t">>,
      name |-> "terms.sort", chars |-> <<"t", "e", "r", "m", "s", ".", "s", "o", "r", "t">>,
      test |-> "truthy", encode |-> TRUE] >>

\* part_003
setGrouping(b, config) ==
  LET field == Get(config, <<"f", "i", "e", "l", "d">>)
      query == Get(config, <<"q", "u", "e", "r", "y">>)
      b1 == setParam(b, "group", Str(HlOn(config)))
      b2 == IF Truthy(field) THEN setParam(b1, "group.field", toArray(field)) ELSE b1
      b3 == IF Truthy(query) THEN setParam(b2, "group.query", toArray(query)) ELSE b2
  IN SetOptions(b3, config, GroupOptions)

RECURSIVE PushEach(_, _, _)
\* toArray(v).forEach((x) => this.parameters.push(`name=${encodeURIComponent(x)}`))
PushEach(p, chars, items) ==
  IF items = <<>> THEN p
  ELSE PushEach(Append(p, chars \o <<"=">> \o encodeURIComponent(StringOf(Head(items)))),
                chars, Tail(items))

\* part_004: the parameters after the call, and the caller's config after
\* it: `config.query = [config.query]` is written into the object given
setGroupingFlat(p, config) ==
  LET field == Get(config, <<"f", "i", "e", "l", "d">>)
      query == Get(config, <<"q", "u", "e", "r", "y">>)
      p1 == Append(p, <<"g", "r", "o", "u", "p", "=">> \o HlOn(config))
      p2 == IF Truthy(field) THEN PushEach(p1, <<"g", "r", "o", "u", "p", ".", "f", "i", "e", "l", "d">>, toArray(field).items) ELSE p1
      wrapped == IF Truthy(query) /\ ~IsList(query)
                 THEN [config EXCEPT !.e = [i \in DOMAIN config.e |->
                                              IF config.e[i].k = <<"q", "u", "e", "r", "y">>
                                              THEN Entry(<<"q", "u", "e", "r", "y">>, List(<<query>>))
                                              ELSE config.e[i]]]
                 ELSE config
      p3 == IF Truthy(query)
            THEN PushEach(p2, <<"g", "r", "o", "u", "p", ".", "q", "u", "e", "r", "y">>, toArray(Get(wrapped, <<"q", "u", "e", "r", "y">>)).items)
            ELSE p2
  IN [parameters |-> PushOptions(p3, wrapped, GroupOptions), config |-> wrapped]

\* typeof config.qf === 'string' ? config.qf
\*   : Object.entries(config.qf).map(([field, boost]) => `${field}^${boost}`).join(' ')
MltQueryFields(qf) ==
  IF IsString(qf) THEN qf.s
  ELSE Join([i \in DOMAIN qf.e |-> qf.e[i].k \o <<"^">> \o StringOf(qf.e[i].v)], <<" ">>)

\* part_003
setMoreLikeThis(b, config) ==
  LET fl == Get(config, <<"f", "l">>)
      qf == Get(config, <<"q", "f">>)
      b1 == setParam(b, "mlt", Str(HlOn(config)))
      b2 == IF Truthy(fl) THEN setParam(b1, "mlt.fl", Str(HlFields(fl))) ELSE b1
      b3 == SetOptions(b2, config, MltOptions)
  IN IF Truthy(qf) THEN setParam(b3, "mlt.qf", Str(MltQueryFields(qf))) ELSE b3

\* part_003
setTerms(b, config) ==
  SetOptions(setParam(b, "terms", Str(HlOn(config))), config, TermsOptions)

\* part_004
setTermsFlat(p, config) ==
  PushOptions(Append(p, <<"t", "e", "r", "m", "s", "=">> \o HlOn(config)), config, TermsOptions)

\* the other options of setGrouping all given
GroupOptionsGiven ==
  <<
     Entry(<<"l", "i", "m", "i", "t">>, Num(5)),
     Entry(<<"o", "f", "f", "s", "e", "t">>, Num(0)),
     Entry(<<"s", "o", "r", "t">>, Str(<<"n", " ", "a", "s", "c">>)),
     Entry(<<"f", "o", "r", "m", "a", "t">>, Str(<<"s", "i", "m", "p", "l", "e">>)),
     Entry(<<"m", "a", "i", "n">>, Bool(TRUE)),
     Entry(<<"n", "g", "r", "o", "u", "p", "s">>, Bool(FALSE)),
     Entry(<<"t", "r", "u", "n", "c", "a", "t", "e">>, Bool(TRUE)),
     Entry(<<"c", "a", "c", "h", "e">>, Num(0)) >>

\* the other options of setMoreLikeThis all given
MltOptionsGiven ==
  <<
     Entry(<<"c", "o", "u", "n", "t">>, Num(3)),
     Entry(<<"m", "i", "n", "t", "f">>, Num(0)),
     Entry(<<"m", "i", "n", "d", "f">>, Num(1)),
     Entry(<<"m", "i", "n", "w", "l">>, Num(0)),
     Entry(<<"m", "a", "x", "w", "l">>, Num(9)),
     Entry(<<"m", "a", "x", "q", "t">>, Num(25)),
     Entry(<<"m", "a", "x", "n", "t", "p">>, Num(0)),
     Entry(<<"b", "o", "o", "s", "t">>, Bool(FALSE)) >>

\* the other options of setTerms all given
TermsOptionsGiven ==
  <<
     Entry(<<"l", "o", "w", "e", "r">>, Str(<<"a">>)),
     Entry(<<"l", "o", "w", "e", "r", "I", "n", "c", "l">>, Bool(FALSE)),
     Entry(<<"m", "i", "n", "c", "o", "u", "n", "t">>, Num(2)),
     Entry(<<"m", "a", "x", "c", "o", "u", "n", "t">>, Num(9)),
     Entry(<<"p", "r", "e", "f", "i", "x">>, Str(<<"a", " ", "b">>)),
     Entry(<<"r", "e", "g", "e", "x">>, Str(<<"a", ".", "*">>)),
     Entry(<<"r", "e", "g", "e", "x", "F", "l", "a", "g">>, Str(<<"c", "a", "s", "e", "_", "i", "n", "s", "e", "n", "s", "i", "t", "i", "v", "e">>)),
     Entry(<<"l", "i", "m", "i", "t">>, Num(10)),
     Entry(<<"u", "p", "p", "e", "r">>, Str(<<"z">>)),
     Entry(<<"u", "p", "p", "e", "r", "I", "n", "c", "l">>, Bool(TRUE)),
     Entry(<<"r", "a", "w">>, Bool(TRUE)),
     Entry(<<"s", "o", "r", "t">>, Str(<<"i", "n", "d", "e", "x">>)) >>

\* the other options of setTerms all given, with 0, false and '' for values
TermsOptionsGivenFalsy ==
  <<
     Entry(<<"l", "o", "w", "e", "r">>, Str(<<>>)),
     Entry(<<"l", "o", "w", "e", "r", "I", "n", "c", "l">>, Bool(FALSE)),
     Entry(<<"m", "i", "n", "c", "o", "u", "n", "t">>, Num(0)),
     Entry(<<"m", "a", "x", "c", "o", "u", "n", "t">>, Num(0)),
     Entry(<<"p", "r", "e", "f", "i", "x">>, Str(<<>>)),
     Entry(<<"r", "e", "g", "e", "x">>, Str(<<>>)),
     Entry(<<"r", "e", "g", "e", "x", "F", "l", "a", "g">>, Str(<<>>)),
     Entry(<<"l", "i", "m", "i", "t">>, Num(0)),
     Entry(<<"u", "p", "p", "e", "r">>, Str(<<>>)),
     Entry(<<"u", "p", "p", "e", "r", "I", "n", "c", "l">>, Bool(FALSE)),
     Entry(<<"r", "a", "w">>, Bool(FALSE)),
     Entry(<<"s", "o", "r", "t">>, Str(<<>>)) >>

GroupingConfigs ==
  { Object(<< Entry(<<"o", "n">>, on), Entry(<<"f", "i", "e", "l", "d">>, field), Entry(<<"q", "u", "e", "r", "y">>, query) >> \o rest) :
      on \in {Undefined, Bool(FALSE)},
      field \in {Undefined, Str(<<"a">>), List(<<Str(<<"a">>), Str(<<"b", " ", "c">>)>>)},
      query \in {Undefined, Str(<<"a", ":", "1">>), List(<<Str(<<"a", ":", "1">>), Str(<<"b", ":", "2">>)>>)},
      rest \in {<<>>, GroupOptionsGiven} }

MoreLikeThisConfigs ==
  { Object(<< Entry(<<"o", "n">>, on), Entry(<<"f", "l">>, fl), Entry(<<"q", "f">>, qf) >> \o rest) :
      on \in {Undefined, Bool(FALSE)},
      fl \in {Undefined, Str(<<"a", ",", "b">>), List(<<Str(<<"a">>), Str(<<"b">>)>>)},
      qf \in {Undefined, Str(<<"a", "^", "2">>),
              Object(<< Entry(<<"a">>, Num(2)), Entry(<<"b">>, Num(1)) >>)},
      rest \in {<<>>, MltOptionsGiven} }

TermsConfigs ==
  { Object(<< Entry(<<"o", "n">>, on), Entry(<<"f", "l">>, fl) >> \o rest) :
      on \in {Undefined, Bool(FALSE)},
      fl \in {Undefined, Str(<<"t", "i", "t", "l", "e">>)},
      rest \in {<<>>, TermsOptionsGiven, TermsOptionsGivenFalsy} }

SetGrouping ==
  /\ New("json")
  /\ \E config \in GroupingConfigs :
       /\ body' = setGrouping(body, config)
       /\ call' = Call("setGrouping", config)
  /\ placed' = placed \cup DOMAIN body'["params"]
  /\ Returned
  /\ UNCHANGED <<escVars, normVars, reqVars, cliVars, builder, parameters, added>>

\* the caller keeps the config it gave: what it held before the call and
\* what the object holds after it
FlatSetGrouping ==
  /\ New("flat")
  /\ \E config \in GroupingConfigs :
       LET r == setGroupingFlat(parameters, config)
       IN /\ parameters' = r.parameters
          /\ call' = Call("setGrouping", config)
          /\ handed' = [t |-> "handed", op |-> "setGrouping",
                        given |-> config, after |-> r.config]
  /\ Returned
  /\ UNCHANGED <<escVars, normVars, reqVars, client, clientOptions, clientConfig, inflight,
                 authCall, builder, body, placed, added>>

SetMoreLikeThis ==
  /\ New("json")
  /\ \E config \in MoreLikeThisConfigs :
       /\ body' = setMoreLikeThis(body, config)
       /\ call' = Call("setMoreLikeThis", config)
  /\ placed' = placed \cup DOMAIN body'["params"]
  /\ Returned
  /\ UNCHANGED <<escVars, normVars, reqVars, cliVars, builder, parameters, added>>

SetTerms ==
  /\ New("json")
  /\ \E config \in TermsConfigs :
       /\ body' = setTerms(body, config)
       /\ call' = Call("setTerms", config)
  /\ placed' = placed \cup DOMAIN body'["params"]
  /\ Returned
  /\ UNCHANGED <<escVars, normVars, reqVars, cliVars, builder, parameters, added>>

FlatSetTerms ==
  /\ New("flat")
  /\ \E config \in TermsConfigs :
       /\ parameters' = setTermsFlat(parameters, config)
       /\ call' = Call("setTerms", config)
  /\ Returned
  /\ UNCHANGED <<escVars, normVars, reqVars, cliVars, builder, body, placed, added>>

NextBuilders ==
  \/ SetQuery
  \/ SetLimit
  \/ SetOffset
  \/ SetParserType
  \/ SetCursor
  \/ EnableDebug
  \/ AddFilter
  \/ AddFilters
  \/ ToObject
  \/ FlatAddRawParameter
  \/ FlatSetParserType
  \/ FlatSetQuery
  \/ FlatSetOffset
  \/ FlatSetLimit
  \/ FlatAddMatchFilter
  \/ FlatAddFilters
  \/ FlatToString
  \/ Reload
  \/ CreateShard
  \/ ReloadInline
  \/ CreateShardInline
  \/ AdminAddRawParameter
  \/ ToQueryString

SpecBuilders == InitBuilders /\ [][NextBuilders]_vars

NextSetters ==
  \/ AddRangeFilter
  \/ FlatAddRangeFilter
  \/ SetSort
  \/ FlatSetSort
  \/ SetFacets
  \/ SetHighlighting
  \/ FlatSetHighlighting
  \/ FlatSetQueryText
  \/ FlatSetParserTypeText
  \/ FlatSetResponseFields
  \/ SetGrouping
  \/ FlatSetGrouping
  \/ SetMoreLikeThis
  \/ SetTerms
  \/ FlatSetTerms
  \/ Create
  \/ CreateInline
  \/ ToObject
  \/ FlatToString
  \/ ToQueryString

SpecSetters == InitSetters /\ [][NextSetters]_vars

----------------------------------------------------------------------------
(* Client: requests and credentials *)

\* the requests in flight at one time
MaxInFlight == 2

\* Buffer.from(s) and Buffer.byteLength(s) of an ASCII string: one byte
\* for each character
CharCode(c) == 31 + CHOOSE n \in DOMAIN Ascii : Ascii[n] = c
Bytes(s) == [i \in DOMAIN s |-> CharCode(s[i])]
ByteLength(s) == Len(Bytes(s))

Base64Chars ==
  <<"A", "B", "C", "D", "E", "F", "G", "H", "I", "J", "K", "L", "M", "N", "O", "P", "Q", "R", "S", "T", "U", "V", "W", "X", "Y", "Z", "a", "b", "c", "d", "e", "f", "g", "h", "i", "j", "k", "l", "m", "n", "o", "p", "q", "r", "s", "t", "u", "v", "w", "x", "y", "z", "0", "1", "2", "3", "4", "5", "6", "7", "8", "9", "+", "/">>
\* buffer.toString('base64'): three bytes give four characters, the last
\* group is padded with =
Base64(bytes) ==
  LET n == Len(bytes)
      byte(i) == IF i <= n THEN bytes[i] ELSE 0
      sextet(g, k) ==
        LET b1 == byte(3 * g - 2)
            b2 == byte(3 * g - 1)
            b3 == byte(3 * g)
        IN CASE k = 1 -> b1 \div 4
             [] k = 2 -> ((b1 % 4) * 16) + (b2 \div 16)
             [] k = 3 -> ((b2 % 16) * 4) + (b3 \div 64)
             [] k = 4 -> b3 % 64
      char(g, k) ==
        IF (k = 3 /\ 3 * g - 1 > n) \/ (k = 4 /\ 3 * g > n) THEN "="
        ELSE Base64Chars[sextet(g, k) + 1]
  IN [i \in 1..(4 * ((n + 2) \div 3)) |-> char(((i - 1) \div 4) + 1, ((i - 1) % 4) + 1)]

\* a || b and a && b
Or(a, b) == IF Truthy(a) THEN a ELSE b
And(a, b) == IF Truthy(a) THEN b ELSE a

IsObject(v) == v.t = "obj"
\* { ...o, ...src }: the keys of src replace those of o in their place, the
\* new keys follow; a src that is no object (undefined, null, false, '')
\* adds nothing
Assign(o, src) ==
  IF ~IsObject(src) THEN o
  ELSE [t |-> "obj",
        e |-> [i \in DOMAIN o.e |->
                 IF Get(src, o.e[i].k) # Undefined THEN Entry(o.e[i].k, Get(src, o.e[i].k))
                 ELSE o.e[i]]
              \o SelectSeq(src.e, LAMBDA en : Get(o, en.k) = Undefined)]

RECURSIVE JSONStringify(_)
\* JSON.stringify of a string: the quote and the backslash are escaped
Quoted(s) ==
  <<"\"">> \o Join([i \in DOMAIN s |->
                      IF s[i] \in {"\"", "\\"} THEN <<"\\", s[i]>> ELSE <<s[i]>>], <<>>)
  \o <<"\"">>
JSONStringify(v) ==
  CASE v.t = "str" -> Quoted(v.s)
    [] v.t = "num" -> NumberToString(v.n)
    [] v.t = "bool" -> StringOf(v)
    [] v.t = "null" -> <<"n", "u", "l", "l">>
    [] v.t = "list" ->
         <<"[">> \o Join([i \in DOMAIN v.items |-> JSONStringify(v.items[i])], <<",">>) \o <<"]">>
    [] v.t = "obj" ->
         <<"{">> \o Join([i \in DOMAIN v.e |->
                           Quoted(v.e[i].k) \o <<":">> \o JSONStringify(v.e[i].v)], <<",">>)
         \o <<"}">>

\* the constructor: this.config
Client(kind, options) ==
  [ core |-> Or(Get(options, <<"c", "o", "r", "e">>), Str(<<>>)),
    path |-> Or(Get(options, <<"p", "a", "t", "h">>), Str(<<"/", "s", "o", "l", "r">>)),
    get_max_request_entity_size |->
      IF kind = "sized" THEN Or(Get(options, <<"g", "e", "t", "_", "m", "a", "x", "_", "r", "e", "q", "u", "e", "s", "t", "_", "e", "n", "t", "i", "t", "y", "_", "s", "i", "z", "e">>), Bool(FALSE))
      ELSE Undefined,
    request |-> Or(Get(options, <<"r", "e", "q", "u", "e", "s", "t">>), Null),
    authorization |-> Undefined ]

COLLECTIONS == <<"a", "d", "m", "i", "n", "/", "c", "o", "l", "l", "e", "c", "t", "i", "o", "n", "s">>
\* parts.filter(Boolean).join('/')
buildHandlerPath(cfg, handler) ==
  LET parts == IF handler = COLLECTIONS THEN <<cfg.path.s, handler>>
               ELSE <<cfg.path.s, cfg.core.s, handler>>
  IN Join(SelectSeq(parts, LAMBDA part : part # <<>>), <<"/">>)

\* executeRequest up to the request: the options handed to
\* this.httpClient.request
requestOptions(cfg, path, method, data, bodyContentType, acceptContentType) ==
  LET headers ==
        Assign(Assign(Assign(
          Object(<< Entry(<<"a", "c", "c", "e", "p", "t">>, Str(acceptContentType)) >>),
          And(cfg.authorization, Object(<< Entry(<<"a", "u", "t", "h", "o", "r", "i", "z", "a", "t", "i", "o", "n">>, cfg.authorization) >>))),
          And(bodyContentType, And(Bool(method = <<"P", "O", "S", "T">>),
              Object(<< Entry(<<"c", "o", "n", "t", "e", "n", "t", "-", "t", "y", "p", "e">>, bodyContentType) >>)))),
          And(data, And(Bool(method = <<"P", "O", "S", "T">>),
              Object(<< Entry(<<"c", "o", "n", "t", "e", "n", "t", "-", "l", "e", "n", "g", "t", "h">>,
                              Str(NumberToString(ByteLength(StringOf(data))))) >>))))
      options ==
        Assign(Assign(Object(<< Entry(<<"m", "e", "t", "h", "o", "d">>, Str(method)), Entry(<<"h", "e", "a", "d", "e", "r", "s">>, headers) >>),
                      And(data, Object(<< Entry(<<"b", "o", "d", "y">>, data) >>))),
               cfg.request)
  IN Assign(Object(<< Entry(<<"p", "a", "t", "h">>, Str(path)) >>), options)

\* this.config.authorization = `Basic ${Buffer.from(`${username}:${password}`).toString('base64')}`
setBasicAuth(cfg, username, password) ==
  [cfg EXCEPT !.authorization =
     Str(<<"B", "a", "s", "i", "c", " ">> \o Base64(Bytes(username \o <<":">> \o password)))]

\* delete this.config.authorization
clearAuth(cfg) == [cfg EXCEPT !.authorization = Undefined]

\* new URLSearchParams({ ...params, wt: 'json' }).toString()
WithWt(params) ==
  URLSearchParamsToString(Assign(Assign(Object(<<>>), params),
                                 Object(<< Entry(<<"w", "t">>, Str(<<"j", "s", "o", "n">>)) >>)))

updateDocuments(cfg, data, params) ==
  requestOptions(cfg, buildHandlerPath(cfg, <<"u", "p", "d", "a", "t", "e">>) \o <<"?">> \o WithWt(params),
                 <<"P", "O", "S", "T">>, Str(JSONStringify(data)), Str(<<"a", "p", "p", "l", "i", "c", "a", "t", "i", "o", "n", "/", "j", "s", "o", "n">>),
                 <<"a", "p", "p", "l", "i", "c", "a", "t", "i", "o", "n", "/", "j", "s", "o", "n", ";", " ", "c", "h", "a", "r", "s", "e", "t", "=", "u", "t", "f", "-", "8">>)

\* the body of createDocumentStream: JSONStream.stringify()
JsonStream == [t |-> "stream"]
createDocumentStream(cfg, options) ==
  Object(<< Entry(<<"p", "a", "t", "h">>, Str(buildHandlerPath(cfg, <<"u", "p", "d", "a", "t", "e">>) \o <<"?">> \o WithWt(options))),
            Entry(<<"m", "e", "t", "h", "o", "d">>, Str(<<"P", "O", "S", "T">>)),
            Entry(<<"h", "e", "a", "d", "e", "r", "s">>,
                  Assign(Object(<< Entry(<<"c", "o", "n", "t", "e", "n", "t", "-", "t", "y", "p", "e">>, Str(<<"a", "p", "p", "l", "i", "c", "a", "t", "i", "o", "n", "/", "j", "s", "o", "n">>)) >>),
                         And(cfg.authorization,
                             Object(<< Entry(<<"a", "u", "t", "h", "o", "r", "i", "z", "a", "t", "i", "o", "n">>, cfg.authorization) >>)))),
            Entry(<<"b", "o", "d", "y">>, JsonStream) >>)

\* a query handed to executeQuery: an instance of Query or of Collection
QueryInstance(b, p) == [t |-> "Query", body |-> b, parameters |-> p]
CollectionInstance(p) == [t |-> "Collection", parameters |-> p]

\* part_005: a Query goes out as the JSON body of its toObject(), anything
\* else as a form body
executeQueryPost(cfg, handler, query) ==
  LET path == buildHandlerPath(cfg, handler)
  IN IF query.t = "Query"
     THEN requestOptions(cfg, path \o <<"?", "w", "t", "=", "j", "s", "o", "n">>, <<"P", "O", "S", "T">>, Str(JSONStringify(query.body)),
                         Str(<<"a", "p", "p", "l", "i", "c", "a", "t", "i", "o", "n", "/", "j", "s", "o", "n">>), <<"a", "p", "p", "l", "i", "c", "a", "t", "i", "o", "n", "/", "j", "s", "o", "n", ";", " ", "c", "h", "a", "r", "s", "e", "t", "=", "u", "t", "f", "-", "8">>)
     ELSE LET queryString == IF query.t = "Collection" THEN toQueryString(query.parameters)
                             ELSE IF IsObject(query) THEN URLSearchParamsToString(query)
                             ELSE query.s
          IN requestOptions(cfg, path, <<"P", "O", "S", "T">>,
                            Str(IF queryString # <<>> THEN queryString \o <<"&", "w", "t", "=", "j", "s", "o", "n">>
                                ELSE <<"w", "t", "=", "j", "s", "o", "n">>),
                            Str(<<"a", "p", "p", "l", "i", "c", "a", "t", "i", "o", "n", "/", "x", "-", "w", "w", "w", "-", "f", "o", "r", "m", "-", "u", "r", "l", "e", "n", "c", "o", "d", "e", "d", ";", " ", "c", "h", "a", "r", "s", "e", "t", "=", "u", "t", "f", "-", "8">>),
                            <<"a", "p", "p", "l", "i", "c", "a", "t", "i", "o", "n", "/", "j", "s", "o", "n", ";", " ", "c", "h", "a", "r", "s", "e", "t", "=", "u", "t", "f", "-", "8">>)

\* part_006: query.toString() of a Query is its parameters joined, of a
\* Collection, which has no toString of its own, '[object Object]'
executeQuerySized(cfg, handler, query) ==
  LET queryData == IF query.t = "Query" THEN toString(query.parameters)
                   ELSE IF query.t = "Collection" THEN <<"[", "o", "b", "j", "e", "c", "t", " ", "O", "b", "j", "e", "c", "t", "]">>
                   ELSE IF IsObject(query) THEN URLSearchParamsToString(query)
                   ELSE query.s
      path == buildHandlerPath(cfg, handler)
      queryString == IF queryData # <<>> THEN queryData \o <<"&", "w", "t", "=", "j", "s", "o", "n">> ELSE <<"w", "t", "=", "j", "s", "o", "n">>
      urlLength == ByteLength(path) + ByteLength(queryString) + 100
      size == cfg.get_max_request_entity_size
      method == IF size = Bool(FALSE) \/ (size.t = "num" /\ urlLength <= size.n)
                THEN <<"G", "E", "T">> ELSE <<"P", "O", "S", "T">>
  IN requestOptions(cfg,
                    IF method = <<"G", "E", "T">> THEN path \o <<"?">> \o queryString ELSE path,
                    method,
                    IF method = <<"P", "O", "S", "T">> THEN Str(queryData) ELSE Null,
                    IF method = <<"P", "O", "S", "T">>
                    THEN Str(<<"a", "p", "p", "l", "i", "c", "a", "t", "i", "o", "n", "/", "x", "-", "w", "w", "w", "-", "f", "o", "r", "m", "-", "u", "r", "l", "e", "n", "c", "o", "d", "e", "d", ";", " ", "c", "h", "a", "r", "s", "e", "t", "=", "u", "t", "f", "-", "8">>) ELSE Null,
                    <<"a", "p", "p", "l", "i", "c", "a", "t", "i", "o", "n", "/", "j", "s", "o", "n", ";", " ", "c", "h", "a", "r", "s", "e", "t", "=", "u", "t", "f", "-", "8">>)

executeQuery(kind, cfg, handler, query) ==
  IF kind = "post" THEN executeQueryPost(cfg, handler, query)
  ELSE executeQuerySized(cfg, handler, query)

\* Undici options applied to all requests: none, a timeout, headers
RequestOptions ==
  { Undefined,
    Object(<< Entry(<<"h", "e", "a", "d", "e", "r", "s", "T", "i", "m", "e", "o", "u", "t">>, Num(5000)) >>),
    Object(<< Entry(<<"h", "e", "a", "d", "e", "r", "s">>, Object(<< Entry(<<"x", "-", "t", "r", "a", "c", "e">>, Str(<<"1">>)) >>)) >>) }

\* the credentials a caller sets
Credentials == { [username |-> <<"u">>, password |-> <<"p">>],
                 [username |-> <<"u">>, password |-> <<>>],
                 [username |-> <<>>, password |-> <<>>] }

InitClient ==
  /\ EscIdle
  /\ NormIdle
  /\ BldIdle
  /\ ReqIdle
  /\ client \in {"post", "sized"}
  /\ \E request \in RequestOptions :
       clientOptions = Object(<< Entry(<<"r", "e", "q", "u", "e", "s", "t">>, request) >>)
  /\ clientConfig = Client(client, clientOptions)
  /\ inflight = <<>>
  /\ authCall = NotCalled
  /\ handed = NotCalled

\* a client operation was invoked and its request handed to the HTTP
\* client: the request, and the auth call that was the last one then
Issued(op, request) == [op |-> op, request |-> request, invoked |-> authCall]
CanIssue == client # "none" /\ Len(inflight) < MaxInFlight

SetBasicAuth ==
  /\ client # "none"
  /\ \E c \in Credentials :
       /\ clientConfig' = setBasicAuth(clientConfig, c.username, c.password)
       /\ authCall' = [t |-> "setBasicAuth", username |-> c.username, password |-> c.password]
  /\ UNCHANGED <<escVars, normVars, bldVars, reqVars, client, clientOptions, inflight, handed>>

ClearAuth ==
  /\ client # "none"
  /\ clientConfig' = clearAuth(clientConfig)
  /\ authCall' = [t |-> "clearAuth"]
  /\ UNCHANGED <<escVars, normVars, bldVars, reqVars, client, clientOptions, inflight, handed>>

\* commit(): this.updateDocuments({ commit: options || {} })
Commit ==
  /\ CanIssue
  /\ inflight' = Append(inflight,
       Issued("commit", updateDocuments(clientConfig,
                          Object(<< Entry(<<"c", "o", "m", "m", "i", "t">>, Object(<<>>)) >>), Undefined)))
  /\ UNCHANGED <<escVars, normVars, bldVars, reqVars, client, clientOptions, clientConfig, authCall, handed>>

\* searchAllDocuments(): this.searchDocuments('q=*:*')
SearchAllDocuments ==
  /\ CanIssue
  /\ inflight' = Append(inflight,
       Issued("searchAllDocuments", executeQuery(client, clientConfig, <<"s", "e", "l", "e", "c", "t">>, Str(<<"q", "=", "*", ":", "*">>))))
  /\ UNCHANGED <<escVars, normVars, bldVars, reqVars, client, clientOptions, clientConfig, authCall, handed>>

CreateDocumentStream ==
  /\ CanIssue
  /\ inflight' = Append(inflight,
       Issued("createDocumentStream", createDocumentStream(clientConfig, Object(<<>>))))
  /\ UNCHANGED <<escVars, normVars, bldVars, reqVars, client, clientOptions, clientConfig, authCall, handed>>

\* the response of one of the requests in flight arrives
ResponseArrives ==
  /\ \E i \in DOMAIN inflight :
       inflight' = SubSeq(inflight, 1, i - 1) \o SubSeq(inflight, i + 1, Len(inflight))
  /\ UNCHANGED <<escVars, normVars, bldVars, reqVars, client, clientOptions, clientConfig, authCall, handed>>

NextClient ==
  \/ SetBasicAuth
  \/ ClearAuth
  \/ Commit
  \/ SearchAllDocuments
  \/ CreateDocumentStream
  \/ ResponseArrives

SpecClient == InitClient /\ [][NextClient]_vars

\* the authorization header of a request, undefined when it has none
AuthorizationOf(request) ==
  IF IsObject(Get(request, <<"h", "e", "a", "d", "e", "r", "s">>)) THEN Get(Get(request, <<"h", "e", "a", "d", "e", "r", "s">>), <<"a", "u", "t", "h", "o", "r", "i", "z", "a", "t", "i", "o", "n">>)
  ELSE Undefined

\* the header that the credentials of an auth call ask for
Credential(a) ==
  IF a # NotCalled /\ a.t = "setBasicAuth"
  THEN Str(<<"B", "a", "s", "i", "c", " ">> \o Base64(Bytes(a.username \o <<":">> \o a.password)))
  ELSE Undefined

IssuesWithLastAuth ==
  Len(inflight') = Len(inflight) + 1 =>
    AuthorizationOf(inflight'[Len(inflight')].request) = Credential(authCall)

\* C21: a request issued after setBasicAuth(u, p) and before the next
\* clearAuth carries `authorization: Basic base64(u:p)` of the most recent
\* setBasicAuth; a request issued after clearAuth, or before any
\* setBasicAuth, carries no authorization header; for every client
\* configuration and every interleaving of auth calls and requests.
C21_FollowsLastAuthCall == [][IssuesWithLastAuth]_vars

\* C27: under concurrent requests on one client every request in flight
\* carries the credentials that were in effect when its operation was
\* invoked, whatever auth calls, invocations and response arrivals came
\* after it.
C27_CredentialsOfInvocation ==
  \A i \in DOMAIN inflight :
    AuthorizationOf(inflight[i].request) = Credential(inflight[i].invoked)

----------------------------------------------------------------------------
(* Client: one query through executeQuery *)

\* the sizes a caller configures lie between these, 0 apart
MinEntitySize == 118
MaxEntitySize == 129

\* s.toLowerCase() of ASCII text
toLowerCase(s) ==
  [i \in DOMAIN s |-> IF CharCode(s[i]) \in 65..90 THEN Ascii[CharCode(s[i]) + 1] ELSE s[i]]

\* o[key] = value
SetProperty(o, key, value) == Assign(o, Object(<< Entry(key, value) >>))

\* addRemoteResource up to executeQuery: the caller's options after the
\* call, the handler and the query string
addRemoteResource(options) ==
  LET given == Get(options, <<"p", "a", "r", "a", "m", "e", "t", "e", "r", "s">>)
      params == Or(given, Object(<<>>))
      withCommit == SetProperty(params, <<"c", "o", "m", "m", "i", "t">>, Nullish(Get(params, <<"c", "o", "m", "m", "i", "t">>), Bool(FALSE)))
      withType == SetProperty(withCommit, <<"s", "t", "r", "e", "a", "m", ".", "c", "o", "n", "t", "e", "n", "t", "T", "y", "p", "e">>,
                              Or(Get(options, <<"c", "o", "n", "t", "e", "n", "t", "T", "y", "p", "e">>), Str(<<"t", "e", "x", "t", "/", "p", "l", "a", "i", "n", ";", "c", "h", "a", "r", "s", "e", "t", "=", "u", "t", "f", "-", "8">>)))
      path == Get(options, <<"p", "a", "t", "h">>)
      withPath == SetProperty(withType,
                              IF StartsWith(path.s, <<"h", "t", "t", "p", ":", "/", "/">>) \/ StartsWith(path.s, <<"h", "t", "t", "p", "s", ":", "/", "/">>)
                              THEN <<"s", "t", "r", "e", "a", "m", ".", "u", "r", "l">> ELSE <<"s", "t", "r", "e", "a", "m", ".", "f", "i", "l", "e">>,
                              path)
      format == IF Get(options, <<"f", "o", "r", "m", "a", "t">>) = Str(<<"x", "m", "l">>) THEN Str(<<>>)
                ELSE Or(Get(options, <<"f", "o", "r", "m", "a", "t">>), Str(<<>>))
  IN [ options |-> IF Truthy(given) THEN SetProperty(options, <<"p", "a", "r", "a", "m", "e", "t", "e", "r", "s">>, withPath)
                   ELSE options,
       handlerPath |-> <<"u", "p", "d", "a", "t", "e", "/">> \o toLowerCase(format.s),
       queryString |-> Str(URLSearchParamsToString(withPath)) ]

\* get_max_request_entity_size as a caller gives it
EntitySizes ==
  {Undefined, Bool(FALSE), Bool(TRUE), Num(0)}
  \cup {Num(n) : n \in MinEntitySize..MaxEntitySize}

\* the queries of searchDocuments: a Query, a keyed object, strings
SearchQueries ==
  { QueryInstance(Object(<< Entry(<<"q", "u", "e", "r", "y">>, Str(MatchAll)), Entry(<<"l", "i", "m", "i", "t">>, Num(10)) >>),
                  << <<"q", "=", "*", "%", "3", "A", "*">>, <<"r", "o", "w", "s", "=", "1", "0">> >>),
    Object(<< Entry(<<"q">>, Str(<<"a", " ", "b">>)) >>),
    Str(<<"q", "=", "*", ":", "*">>),
    Str(<<"q", "=", "a">>),
    Str(<<>>) }
\* the queries of manageCollection
CollectionQueries ==
  { CollectionInstance(<< <<"a", "c", "t", "i", "o", "n", "=", "L", "I", "S", "T">> >>), Str(<<"a", "c", "t", "i", "o", "n", "=", "L", "I", "S", "T">>) }
\* the options of addRemoteResource
ResourceOptions ==
  { Object(<< Entry(<<"p", "a", "t", "h">>, Str(path)), Entry(<<"f", "o", "r", "m", "a", "t">>, format),
              Entry(<<"p", "a", "r", "a", "m", "e", "t", "e", "r", "s">>, params) >>) :
      path \in { <<"h", "t", "t", "p", ":", "/", "/", "h", "/", "a", ".", "c", "s", "v">>, <<"/", "t", "m", "p", "/", "a", ".", "x", "m", "l">> },
      format \in { Undefined, Str(<<"x", "m", "l">>), Str(<<"C", "S", "V">>) },
      params \in { Undefined, Object(<<>>),
                       Object(<< Entry(<<"c", "o", "m", "m", "i", "t">>, Bool(TRUE)), Entry(<<"s", "e", "p", "a", "r", "a", "t", "o", "r">>, Str(<<";">>)) >>) } }

InitExecuteQuery ==
  /\ EscIdle
  /\ NormIdle
  /\ BldIdle
  /\ ReqIdle
  /\ client \in {"post", "sized"}
  /\ \E core \in {Undefined, Str(<<"c", "1">>)},
        size \in IF client = "sized" THEN EntitySizes ELSE {Undefined} :
       clientOptions = Object(<< Entry(<<"c", "o", "r", "e">>, core),
                                 Entry(<<"g", "e", "t", "_", "m", "a", "x", "_", "r", "e", "q", "u", "e", "s", "t", "_", "e", "n", "t", "i", "t", "y", "_", "s", "i", "z", "e">>, size) >>)
  /\ clientConfig = Client(client, clientOptions)
  /\ inflight = <<>>
  /\ authCall = NotCalled
  /\ handed = NotCalled

Idle == client # "none" /\ inflight = <<>>

\* searchDocuments(query): this.executeQuery(this.handlers.SELECT, query)
SearchDocuments ==
  /\ Idle
  /\ \E query \in SearchQueries :
       inflight' = <<Issued("searchDocuments",
                            executeQuery(client, clientConfig, <<"s", "e", "l", "e", "c", "t">>, query))>>
  /\ UNCHANGED <<escVars, normVars, bldVars, reqVars, client, clientOptions, clientConfig,
                 authCall, handed>>

\* manageCollection(collection)
ManageCollection ==
  /\ Idle
  /\ \E query \in CollectionQueries :
       inflight' = <<Issued("manageCollection",
                            executeQuery(client, clientConfig, COLLECTIONS, query))>>
  /\ UNCHANGED <<escVars, normVars, bldVars, reqVars, client, clientOptions, clientConfig,
                 authCall, handed>>

\* pingServer(): this.executeQuery(this.handlers.PING, '')
PingServer ==
  /\ Idle
  /\ inflight' = <<Issued("pingServer",
                          executeQuery(client, clientConfig, <<"a", "d", "m", "i", "n", "/", "p", "i", "n", "g">>, Str(<<>>)))>>
  /\ UNCHANGED <<escVars, normVars, bldVars, reqVars, client, clientOptions, clientConfig,
                 authCall, handed>>

AddRemoteResource ==
  /\ Idle
  /\ \E options \in ResourceOptions :
       LET r == addRemoteResource(options)
       IN /\ handed' = [t |-> "handed", op |-> "addRemoteResource",
                        given |-> options, after |-> r.options]
          /\ inflight' = <<Issued("addRemoteResource",
                                  executeQuery(client, clientConfig, r.handlerPath,
                                               r.queryString))>>
  /\ UNCHANGED <<escVars, normVars, bldVars, reqVars, client, clientOptions, clientConfig,
                 authCall>>

\* the response arrives and the caller goes on
QueryAnswered ==
  /\ inflight # <<>>
  /\ inflight' = <<>>
  /\ handed' = NotCalled
  /\ UNCHANGED <<escVars, normVars, bldVars, reqVars, client, clientOptions, clientConfig,
                 authCall>>

NextExecuteQuery ==
  \/ SearchDocuments
  \/ ManageCollection
  \/ PingServer
  \/ AddRemoteResource
  \/ QueryAnswered

SpecExecuteQuery == InitExecuteQuery /\ [][NextExecuteQuery]_vars

\* what a request holds of the query: the form body, and the part of the
\* path behind the question mark
MethodOf(request) == Get(request, <<"m", "e", "t", "h", "o", "d">>).s
FormBody(request) ==
  IF Get(request, <<"b", "o", "d", "y">>) = Undefined THEN <<>> ELSE Get(request, <<"b", "o", "d", "y">>).s
PathOf(request) == Split(Get(request, <<"p", "a", "t", "h">>).s, "?")[1]
QueryOf(request) ==
  LET parts == Split(Get(request, <<"p", "a", "t", "h">>).s, "?")
  IN IF Len(parts) > 1 THEN parts[2] ELSE <<>>

\* path bytes + query-string bytes + 100, the query string being the
\* query with wt=json behind it
EstimatedSize(request) ==
  LET query == IF MethodOf(request) = <<"G", "E", "T">> THEN QueryOf(request)
               ELSE IF FormBody(request) = <<>> THEN <<"w", "t", "=", "j", "s", "o", "n">>
               ELSE FormBody(request) \o <<"&", "w", "t", "=", "j", "s", "o", "n">>
  IN Len(PathOf(request)) + Len(query) + 100

\* C24: with get_max_request_entity_size configured as a number N, N >= 0,
\* a query whose estimated size is at most N is sent by GET and a query
\* beyond N by POST; with the option false every query is sent by GET.
C24_MethodBySize ==
  \A i \in DOMAIN inflight :
    LET request == inflight[i].request
        size == Get(clientOptions, <<"g", "e", "t", "_", "m", "a", "x", "_", "r", "e", "q", "u", "e", "s", "t", "_", "e", "n", "t", "i", "t", "y", "_", "s", "i", "z", "e">>)
    IN client = "sized" =>
         /\ size.t = "num" =>
              (MethodOf(request) = <<"G", "E", "T">> <=> EstimatedSize(request) <= size.n)
         /\ size = Bool(FALSE) => MethodOf(request) = <<"G", "E", "T">>

\* C30: every request dispatched through executeQuery asks for JSON:
\* wt=json is part of what is sent, in the query string of the path or in
\* the form body, whichever method is chosen and whatever the query is.
C30_AlwaysAsksForJson ==
  \A i \in DOMAIN inflight :
    LET request == inflight[i].request
    IN \/ FragmentsOf(QueryOf(request), <<"w", "t">>) = << <<"w", "t", "=", "j", "s", "o", "n">> >>
       \/ FragmentsOf(FormBody(request), <<"w", "t">>) = << <<"w", "t", "=", "j", "s", "o", "n">> >>

-----------------------------------------------------------------------------
(* The structured Query: the object toObject returned *)

\* the caller writes a property of the object toObject returned, which is
\* this.body
CallerEdits ==
  /\ builder = "json"
  /\ returned # NotCalled
  /\ finalized # <<>>
  /\ \E l \in Limits \cup {Num(1)} :
       /\ Put(returned, "limit", l) # returned
       /\ returned' = Put(returned, "limit", l)
  /\ body' = returned'
  /\ finalized' = <<>>
  /\ earlier' = Earlier
  /\ UNCHANGED <<escVars, normVars, reqVars, cliVars, call, builder, parameters, calls, placed,
                 added, raised>>

InitSnapshot ==
  /\ InitBuilders
  /\ builder = "json"

NextSnapshot ==
  \/ SetLimit
  \/ SetParserType
  \/ AddFilter
  \/ AddFilters
  \/ ToObject
  \/ CallerEdits

SpecSnapshot == InitSnapshot /\ [][NextSnapshot]_vars

\* a setter call leaves the object already returned as it was, and a
\* caller's edit of it leaves what the builder finalizes as it was
SnapshotKept ==
  /\ (returned # NotCalled /\ calls' = calls + 1) => returned' = returned
  /\ CallerEdits => toObject(body') = toObject(body)

\* C26: the value toObject returned is a snapshot: setter calls made after
\* it returned do not change the object already returned, and the caller's
\* edits of that object do not change what the builder finalizes later.
C26_Snapshot == [][SnapshotKept]_vars

-----------------------------------------------------------------------------
(* C25, C28, C29: the setters that take a configuration object *)

\* C28: no builder setter and no client operation modifies the
\* configuration object the caller passes to it: after the call returned
\* the caller's object, and every object nested in it, has the keys and
\* values it had before the call.
C28_CallerObjectKept == handed # NotCalled => handed.after = handed.given

\* the options of setHighlighting and of setTerms, each with the field of
\* the config that gives it
FieldsOf(op) ==
  IF op = "setTerms" THEN TermsOptions
  ELSE << [key |-> <<"q">>, name |-> "hl.q", chars |-> <<"h", "l", ".", "q">>],
          [key |-> <<"f", "l">>, name |-> "hl.fl", chars |-> <<"h", "l", ".", "f", "l">>],
          [key |-> <<"s", "i", "m", "p", "l", "e", "P", "r", "e">>, name |-> "hl.simple.pre", chars |-> <<"h", "l", ".", "s", "i", "m", "p", "l", "e", ".", "p", "r", "e">>],
          [key |-> <<"s", "i", "m", "p", "l", "e", "P", "o", "s", "t">>, name |-> "hl.simple.post", chars |-> <<"h", "l", ".", "s", "i", "m", "p", "l", "e", ".", "p", "o", "s", "t">>] >>
       \o [i \in DOMAIN HlQparser |-> [key |-> HlQparser[i].key, name |-> HlQparser[i].name, chars |-> HlQparser[i].chars]]
       \o [i \in DOMAIN HlBeforeMarkers |-> [key |-> HlBeforeMarkers[i].key, name |-> HlBeforeMarkers[i].name, chars |-> HlBeforeMarkers[i].chars]]
       \o [i \in DOMAIN HlAfterMarkers |-> [key |-> HlAfterMarkers[i].key, name |-> HlAfterMarkers[i].name, chars |-> HlAfterMarkers[i].chars]]

\* the finalized output holds the parameter of this name
Shown(out, r) ==
  IF builder = "json" THEN Has(out, "params") /\ Has(out["params"], r.name)
  ELSE FragmentsOf(out, r.chars) # <<>>

\* C29: every field the caller supplies with a defined value in a
\* setHighlighting or setTerms configuration produces its parameter in the
\* finalized output, also when the value is the number 0.
C29_GivenFieldsShown ==
  (call # NotCalled /\ call.op \in {"setHighlighting", "setTerms"} /\ finalized # <<>>) =>
    \A i \in DOMAIN FieldsOf(call.op) :
      Get(call.arg, FieldsOf(call.op)[i].key) # Undefined =>
        Shown(finalized[Len(finalized)].out, FieldsOf(call.op)[i])

-----------------------------------------------------------------------------
(* The structured Query: a configuration setter called again *)

\* the configuration setters of the structured Query by name
Configure(op, b, config) ==
  CASE op = "setGrouping" -> setGrouping(b, config)
    [] op = "setHighlighting" -> setHighlighting(b, config)
    [] op = "setMoreLikeThis" -> setMoreLikeThis(b, config)
    [] op = "setTerms" -> setTerms(b, config)

\* the configurations of a later call: nothing but the switch, and one
\* option each
LaterConfigs(op) ==
  { Object(<<>>), Object(<< Entry(<<"o", "n">>, Bool(FALSE)) >>) }
  \cup CASE op = "setGrouping" -> { Object(<< Entry(<<"l", "i", "m", "i", "t">>, Num(1)) >>) }
         [] op = "setHighlighting" -> { Object(<< Entry(<<"f", "l">>, Str(<<"t">>)) >>) }
         [] op = "setMoreLikeThis" -> { Object(<< Entry(<<"c", "o", "u", "n", "t">>, Num(1)) >>) }
         [] op = "setTerms" -> { Object(<< Entry(<<"f", "l">>, Str(<<"t">>)) >>) }

\* the setter of the last call is called again on the builder
CalledAgain ==
  /\ builder = "json"
  /\ calls \in 1..(MaxCalls - 1)
  /\ call # NotCalled
  /\ \E config \in LaterConfigs(call.op) :
       /\ body' = Configure(call.op, body, config)
       /\ call' = Call(call.op, config)
  /\ placed' = placed \cup DOMAIN body'["params"]
  /\ Returned
  /\ UNCHANGED <<escVars, normVars, reqVars, cliVars, builder, parameters, added>>

InitReconfigure ==
  /\ InitSetters
  /\ builder = "json"

NextReconfigure ==
  \/ SetGrouping
  \/ SetHighlighting
  \/ SetMoreLikeThis
  \/ SetTerms
  \/ CalledAgain
  \/ ToObject

SpecReconfigure == InitReconfigure /\ [][NextReconfigure]_vars

\* the params of a finalized request, none when it has no params
ParamsOf(request) == IF Has(request, "params") THEN request["params"] ELSE EmptyObject

\* C25: in structured mode a configuration setter called again replaces
\* its earlier call: after setGrouping, setHighlighting, setMoreLikeThis or
\* setTerms was called more than once on one builder the finalized params
\* equal those of a builder on which only the last call was made.
C25_LaterCallReplaces ==
  (calls >= 2 /\ call # NotCalled) =>
    ParamsOf(toObject(body))
      = ParamsOf(toObject(Configure(call.op, [query |-> Str(MatchAll)], call.arg)))

====
